---- MODULE Spec2Model ----
(***************************************************************************)
(* A state-machine model of the cache/memory simulation engine:            *)
(*   src/memory_simulator.py  (MemorySimulator)                            *)
(*   src/cache_simulator.py   (CacheEntry, CacheSimulator)                 *)
(*   src/exercise_manager.py  (ExerciseOperation, ExerciseManager)         *)
(*   src/predefined_exercises.py  (the registry and load_exercise)         *)
(*   src/gui/main_window.py   (on_load_exercise, on_check_answer,          *)
(*                             on_next_operation)                          *)
(* The configuration is chosen at construction and never changes.  The     *)
(* address arithmetic is the code's: 16-bit addresses, 4-byte words, bit   *)
(* fields cut by shifts and masks.  Only the input addresses and values    *)
(* and the number of accesses between two resets are bounded.              *)
(***************************************************************************)
EXTENDS Integers, Sequences, FiniteSets, TLC

VARIABLES
    \* CacheSimulator configuration (src/cache_simulator.py:40-43)
    cache_size_slots, block_size_words, associativity, write_policy,
    \* CacheSimulator state
    cache, hits, misses,
    \* MemorySimulator state
    memory, modified_addresses,
    \* ExerciseManager state (src/exercise_manager.py:47-49); the cursor counts
    \* from 0 as in the code, operations is a sequence indexed from 1
    operations, current_operation_index, attempts_per_question,
    \* the last call of the cache or the memory and what it returned
    ret,
    \* the last call of the ExerciseManager and what it returned
    sessionRet,
    \* history variables (not program state):
    \*   accesses          the cache accesses since the memory was constructed
    \*                     or last reset
    \* and, cleared by a cache reset:
    \*   lastAccess[s][w]  the value of accesses at the last hit or fill of
    \*                     way w of set s, 0 if none
    \*   lastCacheWrite[a] the last value written to word a through the cache
    \*                     and not overwritten by a direct memory write since,
    \*                     as a one-element set, {} if none
    \*   readAddrs         the addresses read through the cache
    \*   accAddrs          the addresses read or written through the cache
    \*   returned          how many cache accesses returned a hit, and how many
    \*                     a miss
    \* and, cleared by a memory reset:
    \*   lastDirectWrite[a] the last value stored in word a by a call of
    \*                     MemorySimulator.write, write_block or
    \*                     initialize_custom made from outside the cache, as a
    \*                     one-element set, {} if none
    accesses, lastAccess, lastCacheWrite, readAddrs, accAddrs, returned,
    lastDirectWrite

vars == <<cache_size_slots, block_size_words, associativity, write_policy,
          cache, hits, misses, memory, modified_addresses,
          operations, current_operation_index, attempts_per_question, ret, sessionRet,
          accesses, lastAccess, lastCacheWrite, readAddrs, accAddrs, returned,
          lastDirectWrite>>

cfgVars == <<cache_size_slots, block_size_words, associativity, write_policy>>

sessVars == <<operations, current_operation_index, attempts_per_question, sessionRet>>

----------------------------------------------------------------------------
(* Bounds of the model *)

\* cache accesses between two resets of the memory
MaxAccesses == 3

\* input addresses: three blocks (tags 0, 1.., 2..) that collide in set 0 under
\* every configuration below, and an address that is not word-aligned, in the
\* second word of the first block
Addrs == {0, 6, 4096, 8192}

\* addresses and values written through the cache
WriteAddrs == {6, 4096}
Values == {1, 2}

\* memory contents pre-populated by initialize_custom (the first two words of
\* get_simple_direct_mapped_exercise, src/predefined_exercises.py:65-67)
Prepops == {(4096 :> 100) @@ (4100 :> 200)}

\* configurations <<<<cache_size_slots, block_size_words, associativity>>,
\* write_policy>> of the state machine: small direct-mapped and 2-way caches
\* under both policies, and the direct-mapped cache of 256 sets of 4 words
Policies == {"write-through", "write-back"}
Configs ==
    ({<<2, 1, 1>>, <<2, 2, 1>>, <<2, 1, 2>>, <<4, 2, 2>>} \X Policies)
        \cup {<<<<256, 4, 1>>, "write-through">>}

\* the configurations under which the statistics are asked
StatsConfigs == {<<<<2, 1, 2>>, "write-back">>, <<<<2, 2, 1>>, "write-through">>}

\* the memory on its own: addresses below, inside, at the end of and beyond
\* the 64K range, aligned or not; blocks written at the start, across the
\* end and before the start of the range
MemAddrs == {-4, -1, 0, 4, 6, 65535, 65536}
MemValues == {1, 2}
MemBlockStarts == {-4, 0, 65528}
MemBlocks == {<<1, 2>>, <<2, 1, 1>>}

\* the exercise session: a direct-mapped write-through and a 2-way write-back
\* cache of two one-word sets; exercises of no, one and two operations on
\* addresses that collide or are not word-aligned; cursor targets inside and
\* outside a sequence; decomposition answers <<tag, block_index, byte_offset,
\* block_offset>>: the right one for each address of the exercises, the right
\* one for 6 with its two offsets exchanged, and answers wrong in one field
\* or in all; at most MaxSessionAccesses cache accesses between two resets and grading
\* calls while a question has fewer than MaxWrongAnswers attempts recorded
SessionConfigs == {<<<<2, 1, 1>>, "write-through">>, <<<<2, 1, 2>>, "write-back">>}
MaxSessionAccesses == 2
MaxWrongAnswers == 3
GoToTargets == -1 .. 2
DecompositionGuesses ==
    {<<0, 0, 0, 0>>, <<1, 0, 0, 0>>, <<0, 1, 2, 0>>, <<0, 1, 0, 2>>,
     <<1, 1, 2, 0>>, <<0, 0, 2, 0>>, <<0, 1, 1, 0>>, <<0, 1, 2, 1>>, <<2, 2, 1, 1>>}

\* the application's check flow: one exercise of the registry loaded on a
\* direct-mapped write-through cache or a 2-way write-back cache; each check
\* submits a hit/miss answer and a decomposition answer, the right one for
\* the current operation or one wrong in its tag; at most MaxCheckAccesses
\* checks after a load
CheckConfigs == {<<<<4, 4, 1>>, "write-through">>, <<<<2, 2, 2>>, "write-back">>}
CheckNames == {"Simple Direct-Mapped"}
MaxCheckAccesses == 3

\* the predefined exercises: the names asked for are two of the registry and
\* one that is not in it; a direct-mapped cache of 4-word blocks under
\* both write policies and a 2-way cache of 2-word blocks; at most
\* MaxLoaderAccesses cache accesses after a load, the length of the longest
\* exercise
LoaderConfigs ==
    ({<<4, 4, 1>>} \X Policies) \cup {<<<<2, 2, 2>>, "write-back">>}
RequestedNames == {"Simple Direct-Mapped", "Write Operations", "Set-Associative Writes"}
MaxLoaderAccesses == 4

\* configurations given to the constructor, powers of two or not: 6 and 3
\* sets (the panel's spin box offers every integer from 2 to 1024) and
\* blocks of 3 words
ConstructConfigs ==
    {<<2, 1, 1>>, <<6, 1, 1>>, <<3, 2, 2>>, <<2, 3, 1>>} \X {"write-back"}

\* addresses outside 0..65535 next to the addresses they alias: 65536 and
\* 65544 have the index and, the tag being masked, the tag of 0 and 8; a
\* negative address; direct-mapped caches under both policies and a 2-way
\* write-back cache of 2-word blocks
RangeAddrs == {0, 8, 65536, 65544, 0 - 4}
RangeValues == {7}
RangeConfigs == ({<<2, 1, 1>>} \X Policies) \cup {<<<<2, 2, 2>>, "write-back">>}
MaxRangeAccesses == 3

\* the replacement policy on its own: caches of 2, 3 and 4 ways, one block
\* more than the ways of a set, all colliding in set 0, and MaxLruExtra
\* accesses more than it takes to fill the set
MaxLruExtra == 2
LruAddrs == {0, 4096, 8192, 12288, 16384}
LruWriteAddrs == {0}
LruValues == {1}
LruConfigs ==
    ({<<2, 1, 2>>, <<2, 1, 3>>} \X Policies) \cup {<<<<2, 1, 4>>, "write-back">>}

----------------------------------------------------------------------------
(* Program constants *)

total_address_bits == 16
bytes_per_word == 4
size_kb == 64
words_per_address == 4

size_bytes == size_kb * 1024

\* ExerciseManager.max_attempts
max_attempts == 2

\* _find_entry_in_set returning None
NoEntry == -1

----------------------------------------------------------------------------
(* Helpers *)

Pow2(n) == 2 ^ n

\* int(math.log2(x)) for x >= 1
RECURSIVE Log2(_)
Log2(x) == IF x <= 1 THEN 0 ELSE 1 + Log2(x \div 2)

MinOf(S) == CHOOSE x \in S : \A y \in S : x <= y
MaxOf(S) == CHOOSE x \in S : \A y \in S : x >= y

\* the words of memory the model keeps: every word of every block (of the
\* largest block size) that an input address falls in.  All other words of
\* the 64K memory stay 0 and are never read or written.
MaxBlockWords == MaxOf({cfg[1][2] : cfg \in Configs \cup LruConfigs})
MaxBlockBytes == bytes_per_word * MaxBlockWords
MemWords ==
    UNION {{b * MaxBlockBytes + words_per_address * i : i \in 0 .. (MaxBlockWords - 1)} :
           b \in {a \div MaxBlockBytes :
                     a \in {x \in Addrs \cup LruAddrs \cup MemAddrs \cup MemBlockStarts :
                               x >= 0 /\ x < size_bytes}}}

----------------------------------------------------------------------------
(* MemorySimulator *)

\* _initialize_default
MemInitializeDefault == [a \in MemWords |-> 0]

\* an address taken as it is
MemAlignNone(address) == address

MemAlign(address) == (address \div words_per_address) * words_per_address

\* a range check that accepts every address
MemInRangeAlways(address) == TRUE

MemInRange(address) == ~(MemAlign(address) < 0 \/ MemAlign(address) >= size_bytes)

\* read: the value, the address being in range (self.memory.get(address, 0))
MemRead(mem, address) ==
    IF MemAlign(address) \in DOMAIN mem THEN mem[MemAlign(address)] ELSE 0

\* read_block: [ok, block]; ok is FALSE when a read raises
MemReadBlock(mem, start_address, n) ==
    LET start == MemAlign(start_address)
        addr(i) == start + i * words_per_address
    IN  IF \A i \in 0 .. (n - 1) : MemInRange(addr(i))
        THEN [ok |-> TRUE, block |-> [i \in 0 .. (n - 1) |-> MemRead(mem, addr(i))]]
        ELSE [ok |-> FALSE, block |-> [i \in 0 .. (n - 1) |-> 0]]

\* write: [ok, memory, modified]; ok is FALSE when the write raises
MemWrite(mem, mod, address, value) ==
    LET a == MemAlign(address)
    IN  IF ~MemInRange(address)
        THEN [ok |-> FALSE, memory |-> mem, modified |-> mod]
        ELSE [ok |-> TRUE,
              memory |-> IF a \in DOMAIN mem THEN [mem EXCEPT ![a] = value]
                         ELSE (a :> value) @@ mem,
              modified |-> mod \cup {a}]

\* write_block: the words of block_data written in order from the aligned
\* start; it stops at the first write that raises
RECURSIVE MemWriteBlockFrom(_, _, _, _, _, _)
MemWriteBlockFrom(mem, mod, start, block_data, i, n) ==
    IF i >= n THEN [ok |-> TRUE, memory |-> mem, modified |-> mod]
    ELSE LET w == MemWrite(mem, mod, start + i * words_per_address, block_data[i])
         IN  IF ~w.ok THEN w
             ELSE MemWriteBlockFrom(w.memory, w.modified, start, block_data, i + 1, n)

MemWriteBlock(mem, mod, start_address, block_data, n) ==
    MemWriteBlockFrom(mem, mod, MemAlign(start_address), block_data, 0, n)

----------------------------------------------------------------------------
(* CacheSimulator: configuration and address arithmetic *)

byte_offset_bits == Log2(bytes_per_word)
block_offset_bits == Log2(block_size_words)
block_index_bits == Log2(cache_size_slots)
tag_bits == total_address_bits - block_index_bits - block_offset_bits - byte_offset_bits

Sets == 0 .. (cache_size_slots - 1)
Ways == 0 .. (associativity - 1)
Words == 0 .. (block_size_words - 1)

\* CacheEntry.__init__
CacheEntry ==
    [valid |-> FALSE, tag |-> 0, data |-> [i \in Words |-> 0], dirty |-> FALSE,
     use_bit |-> 0, block_start_address |-> 0]

\* _initialize_cache: a direct-mapped set is kept as a one-way set
InitializeCache == [s \in Sets |-> [w \in Ways |-> CacheEntry]]

\* a decomposition that does not shift the block offset out before masking
\* the index
ComponentsIndexNotShifted(address) ==
    LET byte_offset == address % Pow2(byte_offset_bits)
        a1 == address \div Pow2(byte_offset_bits)
        block_offset == a1 % Pow2(block_offset_bits)
        block_index == a1 % Pow2(block_index_bits)
        a3 == (a1 \div Pow2(block_offset_bits)) \div Pow2(block_index_bits)
        tag == a3 % Pow2(tag_bits)
    IN  [tag |-> tag, block_index |-> block_index,
         block_offset |-> block_offset, byte_offset |-> byte_offset]

\* a decomposition whose tag mask is one bit short
ComponentsTagMaskShort(address) ==
    LET byte_offset == address % Pow2(byte_offset_bits)
        a1 == address \div Pow2(byte_offset_bits)
        block_offset == a1 % Pow2(block_offset_bits)
        a2 == a1 \div Pow2(block_offset_bits)
        block_index == a2 % Pow2(block_index_bits)
        a3 == a2 \div Pow2(block_index_bits)
        tag == a3 % Pow2(tag_bits - 1)
    IN  [tag |-> tag, block_index |-> block_index,
         block_offset |-> block_offset, byte_offset |-> byte_offset]

\* calculate_address_components: shift and mask, low bits first
CalculateAddressComponents(address) ==
    LET byte_offset == address % Pow2(byte_offset_bits)
        a1 == address \div Pow2(byte_offset_bits)
        block_offset == a1 % Pow2(block_offset_bits)
        a2 == a1 \div Pow2(block_offset_bits)
        block_index == a2 % Pow2(block_index_bits)
        a3 == a2 \div Pow2(block_index_bits)
        tag == a3 % Pow2(tag_bits)
    IN  [tag |-> tag, block_index |-> block_index,
         block_offset |-> block_offset, byte_offset |-> byte_offset]

\* _get_block_start_address
GetBlockStartAddress(address) ==
    (address \div Pow2(byte_offset_bits + block_offset_bits))
        * Pow2(byte_offset_bits + block_offset_bits)

----------------------------------------------------------------------------
(* CacheSimulator: lookup, replacement, recency *)

\* a lookup that compares the tag without testing the valid bit
FindEntryIgnoringValid(c, set_index, tag) ==
    LET found == {w \in Ways : c[set_index][w].tag = tag}
    IN  IF found = {} THEN NoEntry ELSE MinOf(found)

\* a lookup that returns after the first way of the set
FindEntryFirstWayOnly(c, set_index, tag) ==
    IF c[set_index][0].valid /\ c[set_index][0].tag = tag THEN 0 ELSE NoEntry

\* _find_entry_in_set: the first valid way of the set holding the tag
FindEntryInSet(c, set_index, tag) ==
    LET found == {w \in Ways : c[set_index][w].valid /\ c[set_index][w].tag = tag}
    IN  IF found = {} THEN NoEntry ELSE MinOf(found)

\* a victim loop that passes over the invalid lines (the least recently used
\* of the lines it has seen, the first line to start with)
RECURSIVE VictimLoopSkipsInvalid(_, _, _)
VictimLoopSkipsInvalid(entries, i, victim) ==
    IF i >= associativity THEN victim
    ELSE IF ~entries[i].valid THEN VictimLoopSkipsInvalid(entries, i + 1, victim)
    ELSE IF entries[i].use_bit < entries[victim].use_bit
         THEN VictimLoopSkipsInvalid(entries, i + 1, i)
         ELSE VictimLoopSkipsInvalid(entries, i + 1, victim)

\* a victim loop whose comparison is reversed (the most recently used line)
RECURSIVE VictimLoopReversed(_, _, _)
VictimLoopReversed(entries, i, victim) ==
    IF i >= associativity THEN victim
    ELSE IF ~entries[i].valid THEN i
    ELSE IF entries[i].use_bit > entries[victim].use_bit
         THEN VictimLoopReversed(entries, i + 1, i)
         ELSE VictimLoopReversed(entries, i + 1, victim)

\* the loop of _select_victim_entry over the ways from i on
RECURSIVE VictimLoop(_, _, _)
VictimLoop(entries, i, victim) ==
    IF i >= associativity THEN victim
    ELSE IF ~entries[i].valid THEN i
    ELSE IF entries[i].use_bit < entries[victim].use_bit
         THEN VictimLoop(entries, i + 1, i)
         ELSE VictimLoop(entries, i + 1, victim)

\* a victim selection that takes the direct-mapped branch whatever the
\* associativity
SelectFirstEntry(c, set_index) == 0

\* _select_victim_entry
SelectVictimEntry(c, set_index) ==
    IF associativity = 1 THEN 0 ELSE VictimLoop(c[set_index], 0, 0)

\* a recency update that stamps the maximum itself, without adding one
UpdateLruNoIncrement(c, set_index, way) ==
    IF associativity > 1
    THEN LET max_use_bit ==
                 MaxOf({c[set_index][w].use_bit : w \in {v \in Ways : c[set_index][v].valid}})
         IN  [c EXCEPT ![set_index][way].use_bit = max_use_bit]
    ELSE c

\* _update_lru
UpdateLru(c, set_index, way) ==
    IF associativity > 1
    THEN LET max_use_bit ==
                 MaxOf({c[set_index][w].use_bit : w \in {v \in Ways : c[set_index][v].valid}})
         IN  [c EXCEPT ![set_index][way].use_bit = max_use_bit + 1]
    ELSE c

\* _load_block_from_memory
LoadBlockFromMemory(mem, block_start_address) ==
    MemReadBlock(mem, block_start_address, block_size_words)

\* a write-back test that never holds
WriteBackNever(entry) == FALSE

\* the test of _write_back_if_needed
WriteBackNeeded(entry) == write_policy = "write-back" /\ entry.dirty

\* the victim's write-back on a miss (read lines 197-199, write lines 282-284):
\* [cache, memory, modified]
WriteBackVictim(c, mem, mod, set_index, way) ==
    LET victim == c[set_index][way]
    IN  IF victim.valid /\ WriteBackNeeded(victim)
        THEN LET w == MemWriteBlock(mem, mod, victim.block_start_address,
                                    victim.data, block_size_words)
             IN  [cache |-> [c EXCEPT ![set_index][way].dirty = FALSE],
                  memory |-> w.memory, modified |-> w.modified]
        ELSE [cache |-> c, memory |-> mem, modified |-> mod]

\* _get_way_index
GetWayIndex(set_index, way) == IF associativity = 1 THEN 0 ELSE way

\* an install that forgets to set the valid bit
InstallWithoutValid(c, set_index, way, tag, block_data, dirty, block_start_address) ==
    [c EXCEPT ![set_index][way] =
        [@ EXCEPT !.tag = tag, !.data = block_data, !.dirty = dirty,
                  !.block_start_address = block_start_address]]

\* an install that leaves the line clean whatever the call asks for
InstallBlockClean(c, set_index, way, tag, block_data, dirty, block_start_address) ==
    UpdateLru([c EXCEPT ![set_index][way] =
                  [@ EXCEPT !.valid = TRUE, !.tag = tag, !.data = block_data,
                            !.dirty = FALSE,
                            !.block_start_address = block_start_address]],
              set_index, way)

\* the new block installed in the victim (read lines 202-207, write lines 286-291)
InstallBlock(c, set_index, way, tag, block_data, dirty, block_start_address) ==
    UpdateLru([c EXCEPT ![set_index][way] =
                  [@ EXCEPT !.valid = TRUE, !.tag = tag, !.data = block_data,
                            !.dirty = dirty,
                            !.block_start_address = block_start_address]],
              set_index, way)

----------------------------------------------------------------------------
(* CacheSimulator.read and CacheSimulator.write as functions of the state.  *)
(* The result holds the new state and what the call returns; ok is FALSE    *)
(* when the call raises, and the state is then as the code left it.         *)

Result(c, mem, mod, h, m, ok, hit, value, comp, way, filled) ==
    [cache |-> c, memory |-> mem, modified |-> mod, hits |-> h, misses |-> m,
     ok |-> ok, hit |-> hit, value |-> value,
     set_index |-> comp.block_index, tag |-> comp.tag,
     block_offset |-> comp.block_offset, way |-> way, filled |-> filled]

\* read
CacheRead(c, mem, mod, h, m, address) ==
    LET comp == CalculateAddressComponents(address)
        block_start_address == GetBlockStartAddress(address)
        set_index == comp.block_index
        entry == FindEntryInSet(c, set_index, comp.tag)
    IN  IF entry # NoEntry
        THEN Result(UpdateLru(c, set_index, entry), mem, mod, h + 1, m, TRUE, TRUE,
                    c[set_index][entry].data[comp.block_offset], comp,
                    GetWayIndex(set_index, entry), NoEntry)
        ELSE LET loaded == LoadBlockFromMemory(mem, block_start_address)
                 victim == SelectVictimEntry(c, set_index)
                 wb == WriteBackVictim(c, mem, mod, set_index, victim)
             IN  IF ~loaded.ok
                 THEN Result(c, mem, mod, h, m + 1, FALSE, FALSE, 0, comp, 0, NoEntry)
                 ELSE Result(InstallBlock(wb.cache, set_index, victim, comp.tag,
                                          loaded.block, FALSE, block_start_address),
                             wb.memory, wb.modified, h, m + 1, TRUE, FALSE,
                             loaded.block[comp.block_offset], comp,
                             GetWayIndex(set_index, victim), victim)

\* a write hit that never takes the write-back branch
HitNeverWriteBack == FALSE

\* a write hit that always takes the write-back branch
HitAlwaysWriteBack == TRUE

\* the policy test of a write hit (line 254)
HitIsWriteBack == write_policy = "write-back"

\* a write hit that leaves the memory alone
WriteThroughSkipped(mem, mod, address, value) ==
    [ok |-> TRUE, memory |-> mem, modified |-> mod]

\* the memory write of a write hit under write-through (lines 257-258)
WriteThroughOnHit(mem, mod, address, value) == MemWrite(mem, mod, address, value)

\* a write miss that allocates a line whatever the policy
MissNeverWriteThrough == FALSE

\* the policy test of a write miss (line 270)
MissIsWriteThrough == write_policy = "write-through"

\* write
CacheWrite(c, mem, mod, h, m, address, value) ==
    LET comp == CalculateAddressComponents(address)
        block_start_address == GetBlockStartAddress(address)
        set_index == comp.block_index
        entry == FindEntryInSet(c, set_index, comp.tag)
    IN  IF entry # NoEntry
        THEN LET c1 == [c EXCEPT ![set_index][entry].data[comp.block_offset] = value]
             IN  IF HitIsWriteBack
                 THEN Result(UpdateLru([c1 EXCEPT ![set_index][entry].dirty = TRUE],
                                       set_index, entry),
                             mem, mod, h + 1, m, TRUE, TRUE, 0, comp,
                             GetWayIndex(set_index, entry), NoEntry)
                 ELSE LET w == WriteThroughOnHit(mem, mod, address, value)
                      IN  IF ~w.ok
                          THEN Result(c1, mem, mod, h + 1, m, FALSE, FALSE, 0, comp, 0, NoEntry)
                          ELSE Result(UpdateLru(c1, set_index, entry),
                                      w.memory, w.modified, h + 1, m, TRUE, TRUE, 0, comp,
                                      GetWayIndex(set_index, entry), NoEntry)
        ELSE IF MissIsWriteThrough
             THEN LET w == MemWrite(mem, mod, address, value)
                  IN  IF ~w.ok
                      THEN Result(c, mem, mod, h, m + 1, FALSE, FALSE, 0, comp, 0, NoEntry)
                      ELSE Result(c, w.memory, w.modified, h, m + 1, TRUE, FALSE, 0, comp,
                                  GetWayIndex(set_index, SelectVictimEntry(c, set_index)),
                                  NoEntry)
             ELSE LET loaded == LoadBlockFromMemory(mem, block_start_address)
                      block_data == [loaded.block EXCEPT ![comp.block_offset] = value]
                      victim == SelectVictimEntry(c, set_index)
                      wb == WriteBackVictim(c, mem, mod, set_index, victim)
                      c2 == InstallBlock(wb.cache, set_index, victim, comp.tag,
                                         block_data, TRUE, block_start_address)
                  IN  IF ~loaded.ok
                      THEN Result(c, mem, mod, h, m + 1, FALSE, FALSE, 0, comp, 0, NoEntry)
                      ELSE Result(c2, wb.memory, wb.modified, h, m + 1, TRUE, FALSE, 0, comp,
                                  GetWayIndex(set_index, SelectVictimEntry(c2, set_index)),
                                  victim)

\* a miss that writes the victim back before it fetches the new block
MissCallsFlushFirst(c, set_index, block_start_address) ==
    LET victim == c[set_index][SelectVictimEntry(c, set_index)]
    IN  (IF victim.valid /\ WriteBackNeeded(victim)
         THEN <<[call |-> "write_block", address |-> victim.block_start_address]>>
         ELSE <<>>)
        \o <<[call |-> "read_block", address |-> block_start_address],
             [call |-> "install", address |-> block_start_address]>>

\* the calls a filling miss makes, in the order of its statements (read lines
\* 191-207, write lines 278-291): memory.read_block for the new block,
\* memory.write_block for a valid dirty victim, then the assignments that
\* install the new block in the victim
MissCalls(c, set_index, block_start_address) ==
    LET victim == c[set_index][SelectVictimEntry(c, set_index)]
    IN  <<[call |-> "read_block", address |-> block_start_address]>>
        \o (IF victim.valid /\ WriteBackNeeded(victim)
            THEN <<[call |-> "write_block", address |-> victim.block_start_address]>>
            ELSE <<>>)
        \o <<[call |-> "install", address |-> block_start_address]>>

\* the memory calls and the install made by read, in order
ReadCalls(c, mem, address) ==
    LET comp == CalculateAddressComponents(address)
        block_start_address == GetBlockStartAddress(address)
    IN  IF FindEntryInSet(c, comp.block_index, comp.tag) # NoEntry THEN <<>>
        ELSE IF ~LoadBlockFromMemory(mem, block_start_address).ok
        THEN <<[call |-> "read_block", address |-> block_start_address]>>
        ELSE MissCalls(c, comp.block_index, block_start_address)

\* the memory calls and the install made by write, in order
WriteCalls(c, mem, address) ==
    LET comp == CalculateAddressComponents(address)
        block_start_address == GetBlockStartAddress(address)
    IN  IF FindEntryInSet(c, comp.block_index, comp.tag) # NoEntry
        THEN IF HitIsWriteBack THEN <<>>
             ELSE <<[call |-> "write", address |-> address]>>
        ELSE IF MissIsWriteThrough
        THEN <<[call |-> "write", address |-> address]>>
        ELSE IF ~LoadBlockFromMemory(mem, block_start_address).ok
        THEN <<[call |-> "read_block", address |-> block_start_address]>>
        ELSE MissCalls(c, comp.block_index, block_start_address)

----------------------------------------------------------------------------
(* The state machine *)

\* what a call returned: the hit flag, the value read, the state descriptor;
\* a read or a write also records the calls it made (ReadCalls, WriteCalls)
NoCall ==
    [op |-> "none", address |-> 0, value |-> 0, ok |-> TRUE, hit |-> FALSE, data |-> 0,
     tag |-> 0, set_index |-> 0, block_offset |-> 0, byte_offset |-> 0, way |-> 0]

Returned(op, address, value, r) ==
    [op |-> op, address |-> address, value |-> value, ok |-> r.ok, hit |-> r.hit,
     data |-> r.value, tag |-> r.tag, set_index |-> r.set_index,
     block_offset |-> r.block_offset, byte_offset |-> 0, way |-> r.way]

NoHistory ==
    /\ lastAccess' = [s \in Sets |-> [w \in Ways |-> 0]]
    /\ lastCacheWrite' = [a \in MemWords |-> {}]
    /\ readAddrs' = {}
    /\ accAddrs' = {}
    /\ returned' = [hit |-> 0, miss |-> 0]

\* the count of returned hits and misses after a call
Counted(r) ==
    IF ~r.ok THEN returned
    ELSE IF r.hit THEN [returned EXCEPT !.hit = @ + 1]
    ELSE [returned EXCEPT !.miss = @ + 1]

\* what a call of the ExerciseManager returned: the tuple of a grading call
\* (is_correct, should_auto_advance, feedback) or of execute_current_operation
\* (hit, value); index is the cursor the call was made at, student_answer and
\* decomposition the answers it was given, hit the actual result it graded
\* against, target the index go_to_operation was given, loaded and
\* reset_cache the sequence and the flag load_exercise was given, name the
\* exercise the application was asked to load.  A feedback is its text and
\* the fields it names with their correct values.
NoFeedback == [text |-> "", fields |-> {}]
NoSessionCall ==
    [op |-> "none", index |-> 0, is_correct |-> FALSE, should_auto_advance |-> FALSE,
     feedback |-> NoFeedback, hit |-> FALSE, value |-> 0,
     student_answer |-> FALSE, decomposition |-> <<0, 0, 0, 0>>,
     target |-> 0, loaded |-> <<>>, reset_cache |-> FALSE, name |-> ""]

\* ExerciseManager.__init__
SessionConstructed ==
    /\ operations = <<>>
    /\ current_operation_index = 0
    /\ attempts_per_question = [i \in {} |-> 0]
    /\ sessionRet = NoSessionCall

\* the line a call hit or filled, stamped with the access count
Stamp(r) ==
    LET way == IF r.hit THEN FindEntryInSet(cache, r.set_index, r.tag) ELSE r.filled
    IN  IF r.ok /\ way # NoEntry
        THEN [lastAccess EXCEPT ![r.set_index][way] = accesses + 1]
        ELSE lastAccess

\* CacheSimulator.__init__ with a MemorySimulator() just constructed
Init ==
    /\ \E cfg \in Configs :
          /\ cache_size_slots = cfg[1][1]
          /\ block_size_words = cfg[1][2]
          /\ associativity = cfg[1][3]
          /\ write_policy = cfg[2]
    /\ cache = InitializeCache
    /\ hits = 0
    /\ misses = 0
    /\ memory = MemInitializeDefault
    /\ modified_addresses = {}
    /\ ret = NoCall
    /\ accesses = 0
    /\ lastAccess = [s \in Sets |-> [w \in Ways |-> 0]]
    /\ lastCacheWrite = [a \in MemWords |-> {}]
    /\ readAddrs = {}
    /\ accAddrs = {}
    /\ returned = [hit |-> 0, miss |-> 0]
    /\ lastDirectWrite = [a \in MemWords |-> {}]
    /\ SessionConstructed

\* CacheSimulator.read(address)
Read(address) ==
    /\ accesses' = accesses + 1
    /\ LET r == CacheRead(cache, memory, modified_addresses, hits, misses, address)
       IN  /\ cache' = r.cache
           /\ memory' = r.memory
           /\ modified_addresses' = r.modified
           /\ hits' = r.hits
           /\ misses' = r.misses
           /\ ret' = Returned("read", address, 0, r)
                        @@ [calls |-> ReadCalls(cache, memory, address)]
           /\ lastAccess' = Stamp(r)
           /\ returned' = Counted(r)
    /\ readAddrs' = readAddrs \cup {address}
    /\ accAddrs' = accAddrs \cup {address}
    /\ UNCHANGED <<cfgVars, lastCacheWrite, lastDirectWrite>>

\* CacheSimulator.write(address, value)
Write(address, value) ==
    /\ accesses' = accesses + 1
    /\ LET r == CacheWrite(cache, memory, modified_addresses, hits, misses, address, value)
       IN  /\ cache' = r.cache
           /\ memory' = r.memory
           /\ modified_addresses' = r.modified
           /\ hits' = r.hits
           /\ misses' = r.misses
           /\ ret' = Returned("write", address, value, r)
                        @@ [calls |-> WriteCalls(cache, memory, address)]
           /\ lastAccess' = Stamp(r)
           /\ returned' = Counted(r)
           /\ lastCacheWrite' = IF r.ok
                                THEN IF MemAlign(address) \in DOMAIN lastCacheWrite
                                     THEN [lastCacheWrite EXCEPT
                                              ![MemAlign(address)] = {value}]
                                     ELSE (MemAlign(address) :> {value}) @@ lastCacheWrite
                                ELSE lastCacheWrite
    /\ accAddrs' = accAddrs \cup {address}
    /\ UNCHANGED <<cfgVars, readAddrs, lastDirectWrite>>

\* a reset that zeroes the counters and keeps the lines
ResetCountersOnly ==
    /\ cache' = cache
    /\ hits' = 0
    /\ misses' = 0
    /\ ret' = [NoCall EXCEPT !.op = "reset"]
    /\ NoHistory
    /\ UNCHANGED <<cfgVars, memory, modified_addresses, accesses, lastDirectWrite>>

\* CacheSimulator.reset()
Reset ==
    /\ cache' = InitializeCache
    /\ hits' = 0
    /\ misses' = 0
    /\ ret' = [NoCall EXCEPT !.op = "reset"]
    /\ NoHistory
    /\ UNCHANGED <<cfgVars, memory, modified_addresses, accesses, lastDirectWrite>>

\* MemorySimulator.initialize_custom(pairs) on a memory whose cache holds
\* nothing yet, as the exercise loaders call it
RECURSIVE InitializeCustom(_, _, _, _)
InitializeCustom(mem, mod, pairs, todo) ==
    IF todo = {} THEN [ok |-> TRUE, memory |-> mem, modified |-> mod]
    ELSE LET a == MinOf(todo)
             w == MemWrite(mem, mod, a, pairs[a])
         IN  IF ~w.ok THEN w
             ELSE InitializeCustom(w.memory, w.modified, pairs, todo \ {a})

Prepopulate(pairs) ==
    /\ hits + misses = 0
    /\ ~ \E s \in Sets : \E w \in Ways : cache[s][w].valid
    /\ LET w == InitializeCustom(memory, modified_addresses, pairs, DOMAIN pairs)
       IN  /\ w.ok
           /\ memory' = w.memory
           /\ modified_addresses' = w.modified
    /\ ret' = [NoCall EXCEPT !.op = "initialize_custom"]
    /\ lastCacheWrite' = [a \in MemWords |->
                             IF a \in {MemAlign(x) : x \in DOMAIN pairs} THEN {}
                             ELSE lastCacheWrite[a]]
    /\ lastDirectWrite' = [a \in MemWords |->
                              IF a \in {MemAlign(x) : x \in DOMAIN pairs}
                              THEN {pairs[MaxOf({x \in DOMAIN pairs : MemAlign(x) = a})]}
                              ELSE lastDirectWrite[a]]
    /\ UNCHANGED <<cfgVars, cache, hits, misses, accesses, lastAccess, readAddrs, accAddrs,
                   returned>>

\* cache.reset() then memory.reset(), as ExerciseManager.reset_to_beginning
\* and load_exercise(reset_cache=True) do
ResetCacheAndMemory ==
    /\ cache' = InitializeCache
    /\ hits' = 0
    /\ misses' = 0
    /\ memory' = MemInitializeDefault
    /\ modified_addresses' = {}
    /\ ret' = [NoCall EXCEPT !.op = "reset_all"]
    /\ accesses' = 0
    /\ NoHistory
    /\ lastDirectWrite' = [a \in MemWords |-> {}]
    /\ UNCHANGED cfgVars

\* statistics whose hit rate is divided without the test of the total
StatisticsUnguarded(h, m) ==
    [hits |-> h, misses |-> m, total |-> h + m,
     hit_rate |-> [num |-> h * 100, den |-> h + m]]

\* get_statistics: the dictionary returned.  The hit rate hits / total * 100
\* is kept as the exact fraction num / den; a den of 0 is a division by zero.
GetStatistics(h, m) ==
    LET total_accesses == h + m
    IN  [hits |-> h, misses |-> m, total |-> total_accesses,
         hit_rate |-> IF total_accesses > 0
                      THEN [num |-> h * 100, den |-> total_accesses]
                      ELSE [num |-> 0, den |-> 1]]

\* CacheSimulator.get_statistics()
Statistics ==
    /\ ret' = [op |-> "get_statistics", stats |-> GetStatistics(hits, misses)]
    /\ UNCHANGED <<cfgVars, cache, hits, misses, memory, modified_addresses, accesses,
                   lastAccess, lastCacheWrite, readAddrs, accAddrs, returned,
                   lastDirectWrite>>

Next ==
    \/ accesses < MaxAccesses /\ (\E a \in Addrs : Read(a)) /\ UNCHANGED sessVars
    \/ /\ accesses < MaxAccesses
       /\ \E a \in WriteAddrs : \E v \in Values : Write(a, v)
       /\ UNCHANGED sessVars
    \/ Reset /\ UNCHANGED sessVars
    \/ (\E pairs \in Prepops : Prepopulate(pairs)) /\ UNCHANGED sessVars
    \/ ResetCacheAndMemory /\ UNCHANGED sessVars

Spec == Init /\ [][Next]_vars

\* the state after construction, for a configuration of the given set
Constructed(configs) ==
    /\ \E cfg \in configs :
          /\ cache_size_slots = cfg[1][1]
          /\ block_size_words = cfg[1][2]
          /\ associativity = cfg[1][3]
          /\ write_policy = cfg[2]
    /\ cache = InitializeCache
    /\ hits = 0
    /\ misses = 0
    /\ memory = MemInitializeDefault
    /\ modified_addresses = {}
    /\ ret = NoCall
    /\ accesses = 0
    /\ lastAccess = [s \in Sets |-> [w \in Ways |-> 0]]
    /\ lastCacheWrite = [a \in MemWords |-> {}]
    /\ readAddrs = {}
    /\ accAddrs = {}
    /\ returned = [hit |-> 0, miss |-> 0]
    /\ lastDirectWrite = [a \in MemWords |-> {}]
    /\ SessionConstructed

\* MemorySimulator.read(address), called from outside the cache
MemoryRead(address) ==
    /\ ret' = [op |-> "memory_read", address |-> address, ok |-> MemInRange(address),
               value |-> IF MemInRange(address) THEN MemRead(memory, address) ELSE 0]
    /\ UNCHANGED <<cfgVars, cache, hits, misses, memory, modified_addresses, accesses,
                   lastAccess, lastCacheWrite, readAddrs, accAddrs, returned,
                   lastDirectWrite>>

\* MemorySimulator.write(address, value), called from outside the cache
MemoryWrite(address, value) ==
    /\ LET w == MemWrite(memory, modified_addresses, address, value)
       IN  /\ memory' = w.memory
           /\ modified_addresses' = w.modified
           /\ ret' = [op |-> "memory_write", address |-> address, ok |-> w.ok,
                      value |-> value]
    /\ lastDirectWrite' =
          LET a == address - (address % 4)
          IN  IF a >= 0 /\ a < 65536
              THEN [lastDirectWrite EXCEPT ![a] = {value}]
              ELSE lastDirectWrite
    /\ UNCHANGED <<cfgVars, cache, hits, misses, accesses, lastAccess, lastCacheWrite,
                   readAddrs, accAddrs, returned>>

\* MemorySimulator.write_block(start_address, block_data), called from
\* outside the cache
MemoryWriteBlock(start_address, block_data) ==
    /\ LET n == Len(block_data)
           w == MemWriteBlock(memory, modified_addresses, start_address,
                              [i \in 0 .. (n - 1) |-> block_data[i + 1]], n)
       IN  /\ memory' = w.memory
           /\ modified_addresses' = w.modified
           /\ ret' = [op |-> "memory_write_block", address |-> start_address,
                      ok |-> w.ok, value |-> block_data]
    /\ lastDirectWrite' =
          LET start == start_address - (start_address % 4)
              stored == {i \in 1 .. Len(block_data) :
                            \A j \in 1 .. i : /\ start + 4 * (j - 1) >= 0
                                              /\ start + 4 * (j - 1) < 65536}
          IN  [a \in MemWords |->
                  IF \E i \in stored : a = start + 4 * (i - 1)
                  THEN {block_data[CHOOSE i \in stored : a = start + 4 * (i - 1)]}
                  ELSE lastDirectWrite[a]]
    /\ UNCHANGED <<cfgVars, cache, hits, misses, accesses, lastAccess, lastCacheWrite,
                   readAddrs, accAddrs, returned>>

\* MemorySimulator.reset()
MemoryReset ==
    /\ memory' = MemInitializeDefault
    /\ modified_addresses' = {}
    /\ ret' = [op |-> "memory_reset"]
    /\ lastDirectWrite' = [a \in MemWords |-> {}]
    /\ UNCHANGED <<cfgVars, cache, hits, misses, accesses, lastAccess, lastCacheWrite,
                   readAddrs, accAddrs, returned>>

\* the memory used on its own
MemoryInit == Constructed({<<<<2, 1, 1>>, "write-through">>})

MemoryNext ==
    \/ (\E a \in MemAddrs : MemoryRead(a)) /\ UNCHANGED sessVars
    \/ (\E a \in MemAddrs : \E v \in MemValues : MemoryWrite(a, v)) /\ UNCHANGED sessVars
    \/ /\ \E a \in MemBlockStarts : \E d \in MemBlocks : MemoryWriteBlock(a, d)
       /\ UNCHANGED sessVars
    \/ MemoryReset /\ UNCHANGED sessVars

SpecMemory == MemoryInit /\ [][MemoryNext]_vars

\* the cache with its statistics asked at any moment
StatsInit == Constructed(StatsConfigs)

StatsNext ==
    \/ Next
    \/ Statistics /\ UNCHANGED sessVars

SpecStats == StatsInit /\ [][StatsNext]_vars

\* the constructor given any configuration, and the cache it returns in use
ConstructInit == Constructed(ConstructConfigs)

ConstructNext ==
    \/ accesses < MaxAccesses /\ (\E a \in Addrs : Read(a)) /\ UNCHANGED sessVars
    \/ /\ accesses < MaxAccesses
       /\ \E a \in WriteAddrs : \E v \in Values : Write(a, v)
       /\ UNCHANGED sessVars

SpecConstruct == ConstructInit /\ [][ConstructNext]_vars

\* reads and writes whose address may lie outside the memory
RangeInit == Constructed(RangeConfigs)

RangeNext ==
    \/ /\ accesses < MaxRangeAccesses
       /\ \E a \in RangeAddrs : Read(a)
       /\ UNCHANGED sessVars
    \/ /\ accesses < MaxRangeAccesses
       /\ \E a \in RangeAddrs : \E v \in RangeValues : Write(a, v)
       /\ UNCHANGED sessVars

SpecRange == RangeInit /\ [][RangeNext]_vars

LruInit == Constructed(LruConfigs)

LruNext ==
    \/ /\ accesses < associativity + MaxLruExtra
       /\ \E a \in {x \in LruAddrs : x <= associativity * 4096} : Read(a)
       /\ UNCHANGED sessVars
    \/ /\ accesses < associativity + MaxLruExtra
       /\ \E a \in LruWriteAddrs : \E v \in LruValues : Write(a, v)
       /\ UNCHANGED sessVars

SpecLru == LruInit /\ [][LruNext]_vars

----------------------------------------------------------------------------
(* The address decomposition on its own: every 16-bit address, under       *)
(* configurations from the smallest cache the panel offers to the largest   *)

DecompConfigs == {<<2, 1>>, <<4, 2>>, <<16, 8>>, <<256, 4>>}
AllAddresses == 0 .. (Pow2(total_address_bits) - 1)

DecompInit ==
    /\ \E cfg \in DecompConfigs :
          /\ cache_size_slots = cfg[1]
          /\ block_size_words = cfg[2]
    /\ associativity = 1
    /\ write_policy = "write-through"
    /\ cache = InitializeCache
    /\ hits = 0
    /\ misses = 0
    /\ memory = MemInitializeDefault
    /\ modified_addresses = {}
    /\ ret = NoCall
    /\ accesses = 0
    /\ lastAccess = [s \in Sets |-> [w \in Ways |-> 0]]
    /\ lastCacheWrite = [a \in MemWords |-> {}]
    /\ readAddrs = {}
    /\ accAddrs = {}
    /\ returned = [hit |-> 0, miss |-> 0]
    /\ lastDirectWrite = [a \in MemWords |-> {}]
    /\ SessionConstructed

\* CacheSimulator.calculate_address_components(address), called once
Decompose(address) ==
    /\ ret.op = "none"
    /\ LET comp == CalculateAddressComponents(address)
       IN  ret' = [NoCall EXCEPT !.op = "decompose", !.address = address,
                                 !.tag = comp.tag, !.set_index = comp.block_index,
                                 !.block_offset = comp.block_offset,
                                 !.byte_offset = comp.byte_offset]
    /\ UNCHANGED <<cfgVars, cache, hits, misses, memory, modified_addresses,
                   accesses, lastAccess, lastCacheWrite, readAddrs, accAddrs,
                   returned, lastDirectWrite, sessVars>>

DecompNext == ret.op = "none" /\ \E a \in AllAddresses : Decompose(a)

SpecDecomp == DecompInit /\ [][DecompNext]_vars

----------------------------------------------------------------------------
(* ExerciseManager *)

\* ExerciseOperation.__init__; a read carries no value (None), written 0
ExerciseOperation(operation_type, address, value) ==
    [operation_type |-> operation_type, address |-> address, value |-> value]

\* the exercises loaded
Exercises ==
    {<<>>,
     <<ExerciseOperation("read", 6, 0)>>,
     <<ExerciseOperation("read", 0, 0), ExerciseOperation("write", 8, 1)>>}

\* the state of the cache and the memory, which the calls that only move the
\* cursor or grade leave alone
engineVars == <<cfgVars, cache, hits, misses, memory, modified_addresses, ret, accesses,
                lastAccess, lastCacheWrite, readAddrs, accAddrs, returned,
                lastDirectWrite>>

\* get_current_operation returning an operation rather than None
HasCurrent ==
    0 <= current_operation_index /\ current_operation_index < Len(operations)

\* get_current_operation, when there is one
CurrentOperation == operations[current_operation_index + 1]

\* a has_next that holds on the last operation too
HasNextAtLast == current_operation_index < Len(operations)

\* a has_previous that holds on the first operation too
HasPreviousAtFirst == current_operation_index >= 0

\* has_next, has_previous
HasNext == current_operation_index < Len(operations) - 1
HasPrevious == current_operation_index > 0

\* attempts_per_question.get(index, 0)
GetAttempts(attempts, index) ==
    IF index \in DOMAIN attempts THEN attempts[index] ELSE 0

\* the operation performed on the cache (cache.read or cache.write)
Perform(op) ==
    IF op.operation_type = "read"
    THEN Read(op.address)
    ELSE Write(op.address, op.value)

\* a load_exercise that keeps the attempt counts of the previous exercise
LoadExerciseKeepsAttempts(ops, reset_cache) ==
    /\ operations' = ops
    /\ current_operation_index' = 0
    /\ UNCHANGED attempts_per_question
    /\ IF reset_cache THEN ResetCacheAndMemory ELSE UNCHANGED engineVars
    /\ sessionRet' = [NoSessionCall EXCEPT !.op = "load_exercise",
                                           !.index = current_operation_index,
                                           !.loaded = ops,
                                           !.reset_cache = reset_cache]

\* load_exercise(operations, reset_cache)
LoadExercise(ops, reset_cache) ==
    /\ operations' = ops
    /\ current_operation_index' = 0
    /\ attempts_per_question' = [i \in {} |-> 0]
    /\ IF reset_cache THEN ResetCacheAndMemory ELSE UNCHANGED engineVars
    /\ sessionRet' = [NoSessionCall EXCEPT !.op = "load_exercise",
                                           !.index = current_operation_index,
                                           !.loaded = ops,
                                           !.reset_cache = reset_cache]

\* next_operation
NextOperation ==
    /\ current_operation_index' =
          IF HasNext THEN current_operation_index + 1 ELSE current_operation_index
    /\ sessionRet' = [NoSessionCall EXCEPT !.op = "next_operation",
                                           !.index = current_operation_index]
    /\ UNCHANGED <<engineVars, operations, attempts_per_question>>

\* previous_operation
PreviousOperation ==
    /\ current_operation_index' =
          IF HasPrevious THEN current_operation_index - 1 ELSE current_operation_index
    /\ sessionRet' = [NoSessionCall EXCEPT !.op = "previous_operation",
                                           !.index = current_operation_index]
    /\ UNCHANGED <<engineVars, operations, attempts_per_question>>

\* go_to_operation(index)
GoToOperation(index) ==
    /\ current_operation_index' =
          IF 0 <= index /\ index < Len(operations) THEN index
          ELSE current_operation_index
    /\ sessionRet' = [NoSessionCall EXCEPT !.op = "go_to_operation",
                                           !.index = current_operation_index,
                                           !.target = index]
    /\ UNCHANGED <<engineVars, operations, attempts_per_question>>

\* a reset_to_beginning that resets the cache and not the memory
ResetToBeginningCacheOnly ==
    /\ current_operation_index' = 0
    /\ attempts_per_question' = [i \in {} |-> 0]
    /\ Reset
    /\ sessionRet' = [NoSessionCall EXCEPT !.op = "reset_to_beginning",
                                           !.index = current_operation_index]
    /\ UNCHANGED operations

\* reset_to_beginning
ResetToBeginning ==
    /\ current_operation_index' = 0
    /\ attempts_per_question' = [i \in {} |-> 0]
    /\ ResetCacheAndMemory
    /\ sessionRet' = [NoSessionCall EXCEPT !.op = "reset_to_beginning",
                                           !.index = current_operation_index]
    /\ UNCHANGED operations

\* execute_current_operation
ExecuteCurrentOperation ==
    /\ IF HasCurrent
       THEN /\ Perform(CurrentOperation)
            /\ sessionRet' = [NoSessionCall EXCEPT
                                 !.op = "execute_current_operation",
                                 !.index = current_operation_index,
                                 !.hit = ret'.hit,
                                 !.value = ret'.data]
       ELSE /\ sessionRet' = [NoSessionCall EXCEPT
                                 !.op = "execute_current_operation",
                                 !.index = current_operation_index]
            /\ UNCHANGED engineVars
    /\ UNCHANGED <<operations, current_operation_index, attempts_per_question>>

\* a grading that leaves the attempt count alone on a correct answer
GradeHitMissKeepsCount(attempts_map, index, student_answer, actual_hit) ==
    LET attempts == GetAttempts(attempts_map, index)
    IN  IF actual_hit = student_answer
        THEN [attempts_per_question |-> attempts_map,
              is_correct |-> TRUE, should_auto_advance |-> TRUE,
              feedback |-> [text |-> "Correct!", fields |-> {}]]
        ELSE [attempts_per_question |-> (index :> (attempts + 1)) @@ attempts_map,
              is_correct |-> FALSE, should_auto_advance |-> attempts + 1 >= max_attempts,
              feedback |-> [text |-> "Incorrect", fields |-> {}]]

\* a grading that reveals the answer only after the count has passed
\* max_attempts
GradeHitMissLateReveal(attempts_map, index, student_answer, actual_hit) ==
    LET attempts == GetAttempts(attempts_map, index)
    IN  IF actual_hit = student_answer
        THEN [attempts_per_question |-> (index :> 0) @@ attempts_map,
              is_correct |-> TRUE, should_auto_advance |-> TRUE,
              feedback |-> [text |-> "Correct!", fields |-> {}]]
        ELSE IF attempts + 1 > max_attempts
        THEN [attempts_per_question |-> (index :> (attempts + 1)) @@ attempts_map,
              is_correct |-> FALSE, should_auto_advance |-> TRUE,
              feedback |-> [text |-> IF actual_hit
                                     THEN "Incorrect. The correct answer is Hit."
                                     ELSE "Incorrect. The correct answer is Miss.",
                            fields |-> {}]]
        ELSE [attempts_per_question |-> (index :> (attempts + 1)) @@ attempts_map,
              is_correct |-> FALSE, should_auto_advance |-> FALSE,
              feedback |-> [text |-> "Incorrect, try again.", fields |-> {}]]

\* the grading of a hit/miss answer against the actual result
\* (validate_hit_miss, lines 133-147): the new attempt map and the tuple
\* returned
GradeHitMiss(attempts_map, index, student_answer, actual_hit) ==
    LET is_correct == (actual_hit = student_answer)
        attempts == GetAttempts(attempts_map, index)
    IN  IF is_correct
        THEN [attempts_per_question |-> (index :> 0) @@ attempts_map,
              is_correct |-> TRUE, should_auto_advance |-> TRUE,
              feedback |-> [text |-> "Correct!", fields |-> {}]]
        ELSE IF attempts + 1 >= max_attempts
        THEN [attempts_per_question |-> (index :> (attempts + 1)) @@ attempts_map,
              is_correct |-> FALSE, should_auto_advance |-> TRUE,
              feedback |-> [text |-> IF actual_hit
                                     THEN "Incorrect. The correct answer is Hit."
                                     ELSE "Incorrect. The correct answer is Miss.",
                            fields |-> {}]]
        ELSE [attempts_per_question |-> (index :> (attempts + 1)) @@ attempts_map,
              is_correct |-> FALSE, should_auto_advance |-> FALSE,
              feedback |-> [text |-> "Incorrect, try again.", fields |-> {}]]

\* a validate_hit_miss that counts an attempt before looking for the
\* current operation
ValidateHitMissCountsFirst(student_answer, actual_hit) ==
    /\ attempts_per_question' =
          (current_operation_index :>
              (GetAttempts(attempts_per_question, current_operation_index) + 1))
          @@ attempts_per_question
    /\ sessionRet' = [NoSessionCall EXCEPT
                         !.op = "validate_hit_miss",
                         !.index = current_operation_index,
                         !.feedback = [text |-> "No current operation", fields |-> {}]]
    /\ UNCHANGED <<engineVars, operations, current_operation_index>>

\* validate_hit_miss(student_answer, actual_hit); actual_hit is {} for None,
\* {TRUE} or {FALSE} when the caller provides the result
ValidateHitMiss(student_answer, actual_hit) ==
    IF ~HasCurrent
    THEN /\ sessionRet' = [NoSessionCall EXCEPT
                              !.op = "validate_hit_miss",
                              !.index = current_operation_index,
                              !.feedback = [text |-> "No current operation",
                                            fields |-> {}]]
         /\ UNCHANGED <<engineVars, operations, current_operation_index,
                        attempts_per_question>>
    ELSE /\ IF actual_hit = {} THEN Perform(CurrentOperation) ELSE UNCHANGED engineVars
         /\ LET hit == IF actual_hit = {} THEN ret'.hit ELSE CHOOSE h \in actual_hit : TRUE
                g == GradeHitMiss(attempts_per_question, current_operation_index,
                                  student_answer, hit)
            IN  /\ attempts_per_question' = g.attempts_per_question
                /\ sessionRet' = [NoSessionCall EXCEPT
                                     !.op = "validate_hit_miss",
                                     !.index = current_operation_index,
                                     !.is_correct = g.is_correct,
                                     !.should_auto_advance = g.should_auto_advance,
                                     !.feedback = g.feedback,
                                     !.hit = hit,
                                     !.student_answer = student_answer]
         /\ UNCHANGED <<operations, current_operation_index>>

\* a decomposition grading that reveals the answer one wrong answer late
GradeDecompositionLateReveal(attempts_map, index, address, tag, block_index, byte_offset, block_offset) ==
    LET correct == CalculateAddressComponents(address)
        tag_correct == (tag = correct.tag)
        block_index_correct == (block_index = correct.block_index)
        byte_offset_correct == (byte_offset = correct.byte_offset)
        block_offset_correct == (block_offset = correct.block_offset)
        all_correct == /\ tag_correct /\ block_index_correct
                       /\ byte_offset_correct /\ block_offset_correct
        attempts == GetAttempts(attempts_map, index)
    IN  IF all_correct
        THEN [attempts_per_question |-> (index :> 0) @@ attempts_map,
              is_correct |-> TRUE, should_auto_advance |-> TRUE,
              feedback |-> [text |-> "Correct!", fields |-> {}]]
        ELSE IF attempts + 1 > max_attempts
        THEN [attempts_per_question |-> (index :> (attempts + 1)) @@ attempts_map,
              is_correct |-> FALSE, should_auto_advance |-> TRUE,
              feedback |-> [text |-> "Incorrect. Correct answer:",
                            fields |-> {<<"Tag", correct.tag>>,
                                        <<"BlockIdx", correct.block_index>>,
                                        <<"BlockOff", correct.block_offset>>,
                                        <<"ByteOff", correct.byte_offset>>}]]
        ELSE [attempts_per_question |-> (index :> (attempts + 1)) @@ attempts_map,
              is_correct |-> FALSE, should_auto_advance |-> FALSE,
              feedback |->
                 [text |-> "Incorrect: Try again.",
                  fields |->
                     (IF tag_correct THEN {} ELSE {<<"Tag", correct.tag>>})
                     \cup (IF block_index_correct THEN {}
                           ELSE {<<"Block Index", correct.block_index>>})
                     \cup (IF block_offset_correct THEN {}
                           ELSE {<<"Block Offset", correct.block_offset>>})
                     \cup (IF byte_offset_correct THEN {}
                           ELSE {<<"Byte Offset", correct.byte_offset>>})]]

\* the grading of a decomposition answer (validate_address_decomposition,
\* lines 167-203)
GradeDecomposition(attempts_map, index, address, tag, block_index, byte_offset, block_offset) ==
    LET correct == CalculateAddressComponents(address)
        tag_correct == (tag = correct.tag)
        block_index_correct == (block_index = correct.block_index)
        byte_offset_correct == (byte_offset = correct.byte_offset)
        block_offset_correct == (block_offset = correct.block_offset)
        all_correct == /\ tag_correct /\ block_index_correct
                       /\ byte_offset_correct /\ block_offset_correct
        attempts == GetAttempts(attempts_map, index)
    IN  IF all_correct
        THEN [attempts_per_question |-> (index :> 0) @@ attempts_map,
              is_correct |-> TRUE, should_auto_advance |-> TRUE,
              feedback |-> [text |-> "Correct!", fields |-> {}]]
        ELSE IF attempts + 1 >= max_attempts
        THEN [attempts_per_question |-> (index :> (attempts + 1)) @@ attempts_map,
              is_correct |-> FALSE, should_auto_advance |-> TRUE,
              feedback |-> [text |-> "Incorrect. Correct answer:",
                            fields |-> {<<"Tag", correct.tag>>,
                                        <<"BlockIdx", correct.block_index>>,
                                        <<"BlockOff", correct.block_offset>>,
                                        <<"ByteOff", correct.byte_offset>>}]]
        ELSE [attempts_per_question |-> (index :> (attempts + 1)) @@ attempts_map,
              is_correct |-> FALSE, should_auto_advance |-> FALSE,
              feedback |->
                 [text |-> "Incorrect: Try again.",
                  fields |->
                     (IF tag_correct THEN {} ELSE {<<"Tag", correct.tag>>})
                     \cup (IF block_index_correct THEN {}
                           ELSE {<<"Block Index", correct.block_index>>})
                     \cup (IF block_offset_correct THEN {}
                           ELSE {<<"Block Offset", correct.block_offset>>})
                     \cup (IF byte_offset_correct THEN {}
                           ELSE {<<"Byte Offset", correct.byte_offset>>})]]

\* validate_address_decomposition(tag, block_index, byte_offset, block_offset)
ValidateAddressDecomposition(tag, block_index, byte_offset, block_offset) ==
    /\ IF ~HasCurrent
       THEN /\ sessionRet' = [NoSessionCall EXCEPT
                                 !.op = "validate_address_decomposition",
                                 !.index = current_operation_index,
                                 !.feedback = [text |-> "No current operation",
                                               fields |-> {}]]
            /\ UNCHANGED attempts_per_question
       ELSE LET g == GradeDecomposition(attempts_per_question, current_operation_index,
                                        CurrentOperation.address, tag, block_index,
                                        byte_offset, block_offset)
            IN  /\ attempts_per_question' = g.attempts_per_question
                /\ sessionRet' = [NoSessionCall EXCEPT
                                     !.op = "validate_address_decomposition",
                                     !.index = current_operation_index,
                                     !.is_correct = g.is_correct,
                                     !.should_auto_advance = g.should_auto_advance,
                                     !.feedback = g.feedback,
                                     !.decomposition = <<tag, block_index, byte_offset,
                                                         block_offset>>]
    /\ UNCHANGED <<engineVars, operations, current_operation_index>>

\* the manager constructed on a cache and a memory just constructed
SessionInit == Constructed(SessionConfigs)

SessionNext ==
    \/ \E ops \in Exercises : \E reset_cache \in BOOLEAN : LoadExercise(ops, reset_cache)
    \/ NextOperation
    \/ PreviousOperation
    \/ \E index \in GoToTargets : GoToOperation(index)
    \/ ResetToBeginning
    \/ accesses < MaxSessionAccesses /\ ExecuteCurrentOperation
    \/ /\ accesses < MaxSessionAccesses
       /\ GetAttempts(attempts_per_question, current_operation_index) < MaxWrongAnswers
       /\ \E student_answer \in BOOLEAN : \E actual_hit \in {{}, {TRUE}, {FALSE}} :
             ValidateHitMiss(student_answer, actual_hit)
    \/ /\ GetAttempts(attempts_per_question, current_operation_index) < MaxWrongAnswers
       /\ \E g \in DecompositionGuesses :
             ValidateAddressDecomposition(g[1], g[2], g[3], g[4])

SpecSession == SessionInit /\ [][SessionNext]_vars

----------------------------------------------------------------------------
(* predefined_exercises and MainWindow.on_load_exercise *)

\* get_part2_exercise: the words written to the memory (0x26C0 .. 0x26CC,
\* 0x3520 .. 0x352C) and the reads of 0xBD28, 0xBD24, 0x8128
get_part2_exercise ==
    [pairs |-> (9920 :> 22) @@ (9924 :> 33) @@ (9928 :> 44) @@ (9932 :> 55)
               @@ (13600 :> 66) @@ (13604 :> 77) @@ (13608 :> 88) @@ (13612 :> 99),
     operations |-> <<ExerciseOperation("read", 48424, 0),
                      ExerciseOperation("read", 48420, 0),
                      ExerciseOperation("read", 33064, 0)>>]

\* get_part3_exercise: 0x3238, 0x3748, 0x9238, 0x92A8, 0xF038, 0xF0A8 and the
\* reads of 0x3738, 0xF0A8, 0x92A8
get_part3_exercise ==
    [pairs |-> (12856 :> 123) @@ (14152 :> 234) @@ (37432 :> 345) @@ (37544 :> 456)
               @@ (61496 :> 567) @@ (61608 :> 678),
     operations |-> <<ExerciseOperation("read", 14136, 0),
                      ExerciseOperation("read", 61608, 0),
                      ExerciseOperation("read", 37544, 0)>>]

\* get_simple_direct_mapped_exercise: 0x1000 .. 0x100C, 0x2000, 0x2004 and the
\* reads of 0x1000, 0x1004, 0x2000, 0x1000
get_simple_direct_mapped_exercise ==
    [pairs |-> (4096 :> 100) @@ (4100 :> 200) @@ (4104 :> 300) @@ (4108 :> 400)
               @@ (8192 :> 500) @@ (8196 :> 600),
     operations |-> <<ExerciseOperation("read", 4096, 0),
                      ExerciseOperation("read", 4100, 0),
                      ExerciseOperation("read", 8192, 0),
                      ExerciseOperation("read", 4096, 0)>>]

\* get_write_exercise: 0x3000, 0x3004, 0x4000 and read 0x3000, write 0x3004 =
\* 2500, read 0x4000, read 0x3004
get_write_exercise ==
    [pairs |-> (12288 :> 1000) @@ (12292 :> 2000) @@ (16384 :> 3000),
     operations |-> <<ExerciseOperation("read", 12288, 0),
                      ExerciseOperation("write", 12292, 2500),
                      ExerciseOperation("read", 16384, 0),
                      ExerciseOperation("read", 12292, 0)>>]

EXERCISE_REGISTRY ==
    ("Part 2 - Direct-Mapped (4-word blocks)" :> get_part2_exercise)
    @@ ("Part 3 - 2-Way Set-Associative (LRU)" :> get_part3_exercise)
    @@ ("Simple Direct-Mapped" :> get_simple_direct_mapped_exercise)
    @@ ("Write Operations" :> get_write_exercise)

get_exercise_names == DOMAIN EXERCISE_REGISTRY

\* a loader that falls back on the first exercise of the registry when the
\* name is not known
PredefinedLoadWithDefault(mem, mod, name) ==
    LET exercise == IF name \in DOMAIN EXERCISE_REGISTRY THEN EXERCISE_REGISTRY[name]
                    ELSE get_part2_exercise
        w == InitializeCustom(mem, mod, exercise.pairs, DOMAIN exercise.pairs)
    IN  [ok |-> w.ok, error |-> "", memory |-> w.memory, modified |-> w.modified,
         pairs |-> exercise.pairs, operations |-> exercise.operations]

\* predefined_exercises.load_exercise(name, memory): the exercise's function
\* writes its words (pairs) to the memory and returns its operations; a name
\* that is not in the registry raises ValueError
PredefinedLoadExercise(mem, mod, name) ==
    IF name \in DOMAIN EXERCISE_REGISTRY
    THEN LET exercise == EXERCISE_REGISTRY[name]
             w == InitializeCustom(mem, mod, exercise.pairs, DOMAIN exercise.pairs)
         IN  [ok |-> w.ok, error |-> "", memory |-> w.memory, modified |-> w.modified,
              pairs |-> exercise.pairs, operations |-> exercise.operations]
    ELSE [ok |-> FALSE, error |-> "Unknown exercise", memory |-> mem, modified |-> mod,
          pairs |-> <<>>, operations |-> <<>>]

\* the record of the words written directly to the memory, after the words
\* of pairs have been
DirectlyWritten(last, pairs) ==
    [a \in DOMAIN last \cup DOMAIN pairs |->
        IF a \in DOMAIN pairs THEN {pairs[a]} ELSE last[a]]

\* the record of the words written through the cache, after the words of
\* pairs have been written directly to the memory
NotThroughCache(last, pairs) ==
    [a \in DOMAIN last \cup DOMAIN pairs |-> IF a \in DOMAIN pairs THEN {} ELSE last[a]]

\* load_exercise(name, memory) called on the memory of the application
LoadPredefined(name) ==
    /\ LET l == PredefinedLoadExercise(memory, modified_addresses, name)
       IN  /\ memory' = l.memory
           /\ modified_addresses' = l.modified
           /\ ret' = [op |-> "load_exercise", name |-> name, ok |-> l.ok,
                      error |-> l.error, operations |-> l.operations]
           /\ IF l.ok
              THEN /\ lastDirectWrite' = DirectlyWritten(lastDirectWrite, l.pairs)
                   /\ lastCacheWrite' = NotThroughCache(lastCacheWrite, l.pairs)
              ELSE UNCHANGED <<lastDirectWrite, lastCacheWrite>>
    /\ UNCHANGED <<cfgVars, cache, hits, misses, accesses, lastAccess, readAddrs, accAddrs,
                   returned>>

\* MainWindow.on_load_exercise with the name selected in the dialog: the
\* loader writes the exercise's words to the memory, then
\* ExerciseManager.load_exercise(operations, reset_cache=True) resets the
\* cache and that memory; an exception of the loader is shown in a message
\* box and nothing else is done
OnLoadExercise(name) ==
    LET l == PredefinedLoadExercise(memory, modified_addresses, name)
    IN  IF l.ok
        THEN /\ operations' = l.operations
             /\ current_operation_index' = 0
             /\ attempts_per_question' = [i \in {} |-> 0]
             /\ ResetCacheAndMemory
             /\ sessionRet' = [NoSessionCall EXCEPT
                                  !.op = "on_load_exercise",
                                  !.index = current_operation_index,
                                  !.name = name,
                                  !.loaded = l.operations,
                                  !.reset_cache = TRUE]
        ELSE /\ sessionRet' = [NoSessionCall EXCEPT
                                  !.op = "on_load_exercise",
                                  !.index = current_operation_index,
                                  !.name = name,
                                  !.feedback = [text |-> "Failed to load exercise",
                                                fields |-> {l.error}]]
             /\ UNCHANGED <<engineVars, operations, current_operation_index,
                            attempts_per_question>>

\* the application configured, with no exercise loaded
LoaderInit == Constructed(LoaderConfigs)

LoaderNext ==
    \/ \E name \in RequestedNames : LoadPredefined(name) /\ UNCHANGED sessVars
    \/ \E name \in RequestedNames : OnLoadExercise(name)
    \/ NextOperation
    \/ accesses < MaxLoaderAccesses /\ ExecuteCurrentOperation

SpecLoader == LoaderInit /\ [][LoaderNext]_vars

----------------------------------------------------------------------------
(* MainWindow.on_check_answer, on_next_operation *)

\* the decomposition answers the panel may hold for an address, as
\* get_address_decomposition returns them: <<tag, block_idx, block_off,
\* byte_off>>
CheckAnswers(address) ==
    LET c == CalculateAddressComponents(address)
    IN  {<<c.tag, c.block_index, c.block_offset, c.byte_offset>>,
         <<c.tag + 1, c.block_index, c.block_offset, c.byte_offset>>}

\* the tuple a grading call returns
Graded(g) ==
    [is_correct |-> g.is_correct, should_auto_advance |-> g.should_auto_advance,
     feedback |-> g.feedback]

\* what on_check_answer did: the tuples returned by validate_hit_miss (hm)
\* and validate_address_decomposition (decomp), the actual result, and the
\* answers submitted.  History fields (not program state): checks counts
\* the checks made on the operation since it became the current one,
\* wrong_hm and wrong_decomp the wrong answers of each kind among them.
CheckRecord(index, hit, hit_miss_answer, answer, hm, decomp) ==
    LET same == /\ sessionRet.op = "on_check_answer"
                /\ sessionRet.index = index
                /\ sessionRet.checks > 0
        checks == IF same THEN sessionRet.checks ELSE 0
        wrong_hm == IF same THEN sessionRet.wrong_hm ELSE 0
        wrong_decomp == IF same THEN sessionRet.wrong_decomp ELSE 0
    IN  [NoSessionCall EXCEPT !.op = "on_check_answer", !.index = index, !.hit = hit,
                              !.student_answer = hit_miss_answer,
                              !.decomposition = answer]
        @@ [hm |-> Graded(hm), decomp |-> Graded(decomp),
            checks |-> checks + 1,
            wrong_hm |-> wrong_hm + (IF hm.is_correct THEN 0 ELSE 1),
            wrong_decomp |-> wrong_decomp + (IF decomp.is_correct THEN 0 ELSE 1)]

\* on_check_answer with the answers of the panel: execute_current_operation,
\* validate_hit_miss on its result, validate_address_decomposition with the
\* two offsets passed in the order of its parameters, then next_operation if
\* either call signalled the advance and there is a next operation
OnCheckAnswer(hit_miss_answer, answer) ==
    IF ~HasCurrent
    THEN /\ sessionRet' = [NoSessionCall EXCEPT
                              !.op = "on_check_answer",
                              !.index = current_operation_index,
                              !.feedback = [text |-> "No current operation.",
                                            fields |-> {}]]
                          @@ [checks |-> 0]
         /\ UNCHANGED <<engineVars, operations, current_operation_index,
                        attempts_per_question>>
    ELSE /\ Perform(CurrentOperation)
         /\ LET actual_hit == ret'.hit
                hm == GradeHitMiss(attempts_per_question, current_operation_index,
                                   hit_miss_answer, actual_hit)
                decomp == GradeDecomposition(hm.attempts_per_question,
                                             current_operation_index,
                                             CurrentOperation.address,
                                             answer[1], answer[2], answer[4], answer[3])
                should_advance == hm.should_auto_advance \/ decomp.should_auto_advance
            IN  /\ attempts_per_question' = decomp.attempts_per_question
                /\ current_operation_index' =
                      IF should_advance /\ HasNext THEN current_operation_index + 1
                      ELSE current_operation_index
                /\ sessionRet' = CheckRecord(current_operation_index, actual_hit,
                                             hit_miss_answer, answer, hm, decomp)
         /\ UNCHANGED operations

\* on_next_operation: next_operation when there is a next operation
OnNextOperation == HasNext /\ NextOperation

\* the application configured, with no exercise loaded
CheckInit == Constructed(CheckConfigs)

CheckNext ==
    \/ \E name \in CheckNames : OnLoadExercise(name)
    \/ OnNextOperation
    \/ /\ accesses < MaxCheckAccesses
       /\ \E hit_miss_answer \in BOOLEAN :
             \E answer \in (IF HasCurrent THEN CheckAnswers(CurrentOperation.address)
                            ELSE {<<0, 0, 0, 0>>}) :
                OnCheckAnswer(hit_miss_answer, answer)

SpecCheck == CheckInit /\ [][CheckNext]_vars

----------------------------------------------------------------------------
(* The claims.  The fields of an address as the specification states them,  *)
(* by division, independently of the shifts and masks of the model.         *)

FieldByteOffset(A) == A % bytes_per_word
FieldBlockOffset(A) == (A \div bytes_per_word) % block_size_words
FieldSetIndex(A) == (A \div (bytes_per_word * block_size_words)) % cache_size_slots
FieldTag(A) == A \div (bytes_per_word * block_size_words * cache_size_slots)

\* the exponent of a power of two
ExponentOf(n) == CHOOSE k \in 0 .. total_address_bits : Pow2(k) = n

\* bitwise or of two naturals
RECURSIVE BitOr(_, _)
BitOr(a, b) ==
    IF a = 0 THEN b
    ELSE IF b = 0 THEN a
    ELSE (IF a % 2 = 1 \/ b % 2 = 1 THEN 1 ELSE 0) + 2 * BitOr(a \div 2, b \div 2)

\* tag<<(index_bits+block_offset_bits+2) | set_index<<(block_offset_bits+2)
\*   | block_offset<<2 | byte_offset
Reassembled(r) ==
    LET index_bits == ExponentOf(cache_size_slots)
        offset_bits == ExponentOf(block_size_words)
    IN  BitOr(BitOr(r.tag * Pow2(index_bits + offset_bits + 2),
                    r.set_index * Pow2(offset_bits + 2)),
              BitOr(r.block_offset * Pow2(2), r.byte_offset))

\* the valid ways of the set of address A that hold the tag of A
Resident(c, A) ==
    {w \in Ways : c[FieldSetIndex(A)][w].valid /\ c[FieldSetIndex(A)][w].tag = FieldTag(A)}

\* a step that is a cache access
IsAccess == accesses' = accesses + 1

(* C1: for every address in 0..65535 and every power-of-two configuration,
   calculate_address_components returns the bit slices of the address, low
   bits first: byte_offset = A mod 4, block_offset = (A div 4) mod
   block_size_words, set_index = (A div (4*block_size_words)) mod num_sets,
   tag = A div (4*block_size_words*num_sets), each within its bit width. *)
C1_BitSlices ==
    ret.op = "decompose" =>
        /\ ret.byte_offset = FieldByteOffset(ret.address)
        /\ ret.block_offset = FieldBlockOffset(ret.address)
        /\ ret.set_index = FieldSetIndex(ret.address)
        /\ ret.tag = FieldTag(ret.address)
        /\ ret.byte_offset \in 0 .. (bytes_per_word - 1)
        /\ ret.block_offset \in 0 .. (block_size_words - 1)
        /\ ret.set_index \in 0 .. (cache_size_slots - 1)
        /\ ret.tag \in 0 .. (Pow2(total_address_bits - 2 - ExponentOf(block_size_words)
                                    - ExponentOf(cache_size_slots)) - 1)

\* the address 0xBD2A under 256 sets of 4 words: every field is non-zero
C1_Witness ==
    /\ ret.op = "decompose"
    /\ ret.address = 48426
    /\ cache_size_slots = 256 /\ block_size_words = 4
    /\ ret.tag = 11 /\ ret.set_index = 210 /\ ret.block_offset = 2 /\ ret.byte_offset = 2

(* C2 as stated: for every address in 0..65535, word-aligned or not, the four
   fields reassembled equal the address truncated to a multiple of 4 (the
   reported byte_offset is forced to 0). *)
C2_ReassemblesToAligned ==
    ret.op = "decompose" =>
        Reassembled(ret) = (ret.address \div bytes_per_word) * bytes_per_word

(* C2 amended: for every address in 0..65535 the four fields reassembled equal
   the address itself; the reported byte_offset is A mod 4, so the result is
   the word-aligned value exactly when A is a multiple of 4. *)
C2_ReassemblesToAddress ==
    ret.op = "decompose" =>
        /\ Reassembled(ret) = ret.address
        /\ (Reassembled(ret) = (ret.address \div bytes_per_word) * bytes_per_word
              <=> ret.address % bytes_per_word = 0)

\* an address that is not word-aligned has been decomposed
C2_Witness ==
    /\ ret.op = "decompose"
    /\ ret.address = 4102
    /\ ret.byte_offset = 2
    /\ Reassembled(ret) = 4102

(* C3: for every cache read or write of an in-range address, the returned hit
   flag is true if and only if, in the state before the access, some line of
   the address's set is valid and holds the address's tag; a read hit returns
   data[block_offset] of that line. *)
C3_HitIffResident ==
    [][IsAccess =>
         /\ ret'.hit <=> Resident(cache, ret'.address) # {}
         /\ (ret'.op = "read" /\ ret'.hit) =>
               \A w \in Resident(cache, ret'.address) :
                  ret'.data = cache[FieldSetIndex(ret'.address)][w].data[FieldBlockOffset(ret'.address)]
      ]_vars

\* a read hit in the second way of a set that returned a written value
C3_Witness ==
    /\ ret.op = "read" /\ ret.hit /\ ret.data \in Values
    /\ associativity = 2
    /\ ret.way = 1

(* C4: in every reachable state of the cache (any sequence of reads, writes
   and resets, any associativity and write policy), no set contains two valid
   lines with the same tag. *)
C4_NoDuplicateTag ==
    \A s \in Sets : \A w1, w2 \in Ways :
        (w1 # w2 /\ cache[s][w1].valid /\ cache[s][w2].valid)
            => cache[s][w1].tag # cache[s][w2].tag

\* a full 2-way set after a line of it has been replaced
C4_Witness ==
    /\ associativity = 2
    /\ misses >= 3
    /\ \E s \in Sets : cache[s][0].valid /\ cache[s][1].valid

(* C5: reading the same in-range address twice in a row from a freshly reset
   cache yields miss then hit, and the second read returns the value of the
   first; more generally a read of A immediately following a read of A is a
   hit with the same value. *)
C5_ReadTwice ==
    [][(IsAccess /\ ret'.op = "read") =>
         /\ (\A s \in Sets : \A w \in Ways : ~cache[s][w].valid) => ~ret'.hit
         /\ (ret.op = "read" /\ ret.address = ret'.address) =>
               (ret'.hit /\ ret'.data = ret.data)
      ]_vars

\* the direct-mapped cache of 256 sets of 4 words after a miss and a hit on
\* the pre-populated word 0x1000
C5_Witness ==
    /\ cache_size_slots = 256 /\ block_size_words = 4 /\ associativity = 1
    /\ ret.op = "read" /\ ret.address = 4096 /\ ret.hit /\ ret.data = 100
    /\ hits = 1 /\ misses = 1

\* the tags of the addresses of S that map to set s
TagsIn(S, s) == {FieldTag(a) : a \in {x \in S : FieldSetIndex(x) = s}}

(* C6: in an N-way cache (N>=2) after reset, reading N addresses with N
   distinct tags that map to the same set fills the set without any eviction,
   and re-reading those N addresses afterwards in any order produces only
   hits.  Stated for every set: while the accesses to a set since the reset
   involve at most N distinct tags, no access to it replaces a valid line, and
   every read of a tag already read is a hit. *)
C6_FillThenHit ==
    [][(IsAccess /\ associativity >= 2
          /\ Cardinality(TagsIn(accAddrs', FieldSetIndex(ret'.address))) <= associativity) =>
         LET s == FieldSetIndex(ret'.address)
         IN  /\ \A w \in Ways :
                   cache[s][w].valid =>
                      (cache'[s][w].valid /\ cache'[s][w].tag = cache[s][w].tag)
             /\ (ret'.op = "read" /\ FieldTag(ret'.address) \in TagsIn(readAddrs, s))
                   => ret'.hit
      ]_vars

\* a 4-way set filled by four reads and then re-read twice, out of order
C6_Witness ==
    /\ associativity = 4
    /\ readAddrs = {0, 4096, 8192, 12288} /\ accAddrs = readAddrs
    /\ misses = 4 /\ hits = 2
    /\ ret.op = "read" /\ ret.hit /\ ret.address = 0
    /\ cache[0][0].use_bit > cache[0][3].use_bit
    /\ cache[0][3].use_bit > cache[0][2].use_bit

(* C7: in an N-way cache (N>=2), when a miss that fills the cache (a read
   miss, or a write miss under write-back) targets a set whose N lines are all
   valid, the line replaced is exactly the one whose most recent access (read
   hit, write hit or fill) is the oldest among the N lines of the set; every
   other line of the set keeps its valid bit, tag and data. *)
C7_EvictsLeastRecent ==
    [][(IsAccess /\ associativity >= 2 /\ ret'.ok /\ ~ret'.hit
          /\ (ret'.op = "read" \/ write_policy = "write-back")
          /\ \A w \in Ways : cache[FieldSetIndex(ret'.address)][w].valid) =>
         LET s == FieldSetIndex(ret'.address)
             oldest == CHOOSE w \in Ways : \A v \in Ways : lastAccess[s][w] <= lastAccess[s][v]
         IN  /\ \A v \in Ways \ {oldest} : lastAccess[s][oldest] < lastAccess[s][v]
             /\ cache'[s][oldest].valid
             /\ cache'[s][oldest].tag = FieldTag(ret'.address)
             /\ \A v \in Ways \ {oldest} :
                   /\ cache'[s][v].valid
                   /\ cache'[s][v].tag = cache[s][v].tag
                   /\ cache'[s][v].data = cache[s][v].data
      ]_vars

\* a full 4-way set whose first line was re-accessed: the fifth block has
\* replaced the second line, not the first
C7_Witness ==
    /\ associativity = 4
    /\ accesses = 6 /\ misses = 5 /\ hits = 1
    /\ ~ret.hit /\ ret.address = 16384
    /\ cache[0][1].tag = FieldTag(16384)
    /\ cache[0][0].tag = FieldTag(0)
    /\ lastAccess[0][1] = 6

(* C8: under write-through, every cache write to an in-range address (hit or
   miss) immediately stores the value in the memory at the word-aligned
   address, so that after a cache reset a read of that address through the
   cache returns the written value. *)
C8_WriteThroughReachesMemory ==
    (ret.op = "write" /\ ret.ok /\ write_policy = "write-through") =>
        LET afterReset == CacheRead(InitializeCache, memory, modified_addresses, 0, 0,
                                    ret.address)
        IN  /\ memory[(ret.address \div bytes_per_word) * bytes_per_word] = ret.value
            /\ ~afterReset.hit
            /\ afterReset.value = ret.value

\* a write-through write hit on the address that is not word-aligned
C8_Witness ==
    /\ write_policy = "write-through"
    /\ ret.op = "write" /\ ret.hit /\ ret.address = 6 /\ ret.value = 2
    /\ memory[4] = 2

(* C9: under write-back, a write hit leaves the memory completely unchanged
   (no word and no modified-address record changes); the memory is written by
   the cache only when a dirty line is evicted. *)
C9_WriteBackDefers ==
    [][(IsAccess /\ write_policy = "write-back") =>
         LET s == FieldSetIndex(ret'.address)
         IN  /\ (ret'.op = "write" /\ ret'.hit) =>
                   (memory' = memory /\ modified_addresses' = modified_addresses)
             /\ (memory' # memory \/ modified_addresses' # modified_addresses) =>
                   /\ ~ret'.hit
                   /\ \E w \in Ways :
                         /\ cache[s][w].valid /\ cache[s][w].dirty
                         /\ cache'[s][w].tag = FieldTag(ret'.address)
                         /\ cache[s][w].tag # FieldTag(ret'.address)
      ]_vars

\* a write-back write hit: the line holds the value and the memory does not
C9_Witness ==
    /\ write_policy = "write-back"
    /\ ret.op = "write" /\ ret.hit /\ ret.address = 4096
    /\ memory[4096] # ret.value
    /\ \E w \in Resident(cache, 4096) :
          /\ cache[FieldSetIndex(4096)][w].dirty
          /\ cache[FieldSetIndex(4096)][w].data[FieldBlockOffset(4096)] = ret.value

(* C10: under write-back, immediately after a miss evicts a valid dirty line,
   the memory words of the evicted block (block_size_words words starting at
   the line's recorded origin address) equal the line's data at eviction time,
   that is the last value written to each of those words through the cache,
   for the words written through it. *)
C10_EvictionWritesBack ==
    [][(IsAccess /\ write_policy = "write-back" /\ ret'.ok /\ ~ret'.hit) =>
         LET s == FieldSetIndex(ret'.address)
         IN  \A w \in Ways :
                (/\ cache[s][w].valid /\ cache[s][w].dirty
                 /\ cache'[s][w].tag = FieldTag(ret'.address)) =>
                   \A i \in Words :
                      LET a == cache[s][w].block_start_address + i * bytes_per_word
                      IN  /\ memory'[a] = cache[s][w].data[i]
                          /\ lastCacheWrite[a] # {} => lastCacheWrite[a] = {memory'[a]}
      ]_vars

\* a 2-word dirty block written through the address 6 has been evicted by a
\* read: the memory holds the written word and the block's other word
C10_Witness ==
    /\ write_policy = "write-back" /\ block_size_words = 2
    /\ ret.op = "read" /\ ~ret.hit
    /\ Resident(cache, 6) = {}
    /\ memory[4] \in Values /\ lastCacheWrite[4] = {memory[4]}
    /\ modified_addresses = {0, 4}

(* C11: after any sequence of cache reads and writes since construction or the
   last reset, get_statistics() reports hits = the number of accesses that
   returned hit, misses = the number that returned miss, total = hits + misses,
   and a hit_rate with hit_rate * total = hits * 100; when no access has
   happened hit_rate is 0 and nothing is divided by zero. *)
C11_Statistics ==
    /\ hits = returned.hit
    /\ misses = returned.miss
    /\ ret.op = "get_statistics" =>
          LET st == ret.stats
          IN  /\ st.hits = returned.hit
              /\ st.misses = returned.miss
              /\ st.total = st.hits + st.misses
              /\ st.hit_rate.den # 0
              /\ st.hit_rate.num * st.total = st.hits * 100 * st.hit_rate.den
              /\ (returned.hit + returned.miss = 0) => st.hit_rate.num = 0

\* statistics asked after one hit and two misses: a hit rate of 100/3
C11_Witness ==
    /\ ret.op = "get_statistics"
    /\ returned = [hit |-> 1, miss |-> 2]
    /\ ret.stats.total = 3
    /\ ret.stats.hit_rate = [num |-> 100, den |-> 3]

(* C12: after CacheSimulator.reset(), in any prior state, every line of every
   set is invalid, clean, has all-zero data and recency 0, and hits = misses =
   0; the next access to any address is a miss. *)
C12_ResetClears ==
    [][/\ ret'.op \in {"reset", "reset_all"} =>
            /\ \A s \in Sets : \A w \in Ways :
                  /\ ~cache'[s][w].valid
                  /\ ~cache'[s][w].dirty
                  /\ \A i \in Words : cache'[s][w].data[i] = 0
                  /\ cache'[s][w].use_bit = 0
            /\ hits' = 0
            /\ misses' = 0
       /\ (ret.op \in {"reset", "reset_all"} /\ IsAccess) => ~ret'.hit
      ]_vars

\* a reset after three accesses, one of them a write that reached the memory
C12_Witness ==
    /\ ret.op = "reset"
    /\ accesses = 3
    /\ memory[4096] \in Values
    /\ \A s \in Sets : \A w \in Ways : ~cache[s][w].valid

\* n is a power of two
IsPowerOfTwo(n) == \E k \in 0 .. total_address_bits : n = Pow2(k)

(* C13: constructing a CacheSimulator with a set count that is not a power of
   two, a block size that is not a power of two, or parameters that give
   tag_bits < 0 is rejected at construction; no cache object with such a
   configuration ever exists or serves an access. *)
C13_OnlyValidConfigurations ==
    /\ IsPowerOfTwo(cache_size_slots)
    /\ IsPowerOfTwo(block_size_words)
    /\ tag_bits >= 0

\* a cache of 6 sets has served a read that hit
C13_Witness ==
    /\ cache_size_slots = 6
    /\ ret.op = "read" /\ ret.ok /\ ret.hit

\* the word-aligned value of an address lies outside [0, size_bytes)
OutOfRange(A) == (A - (A % 4) < 0) \/ (A - (A % 4) >= 65536)

(* C14: MemorySimulator.read and MemorySimulator.write with an address whose
   word-aligned value lies outside [0, size_bytes) fail with an out-of-range
   error and leave the stored words and the modified-address record unchanged;
   no address outside the range is ever stored. *)
C14_OutOfRangeRejected ==
    [][/\ ret'.op \in {"memory_read", "memory_write"} =>
            /\ ret'.ok <=> ~OutOfRange(ret'.address)
            /\ OutOfRange(ret'.address) =>
                  (memory' = memory /\ modified_addresses' = modified_addresses)
       /\ \A a \in DOMAIN memory' : a >= 0 /\ a < 65536
       /\ \A a \in modified_addresses' : a >= 0 /\ a < 65536
      ]_vars

\* a write to 65536 has failed on a memory that holds a word written at the
\* last address of the range
C14_Witness ==
    /\ ret.op = "memory_write" /\ ret.address = 65536 /\ ~ret.ok
    /\ memory[65532] \in MemValues
    /\ modified_addresses = {65532}

(* C15: for the memory, after any sequence of write, write_block and reset,
   read(a) for an in-range a returns the value of the most recent write whose
   word-aligned address equals a's word-aligned address since construction or
   the last reset, and 0 if there was none. *)
C15_ReadsLastWrite ==
    /\ (ret.op = "memory_read" /\ ~OutOfRange(ret.address)) =>
          /\ ret.ok
          /\ LET last == lastDirectWrite[ret.address - (ret.address % 4)]
             IN  IF last = {} THEN ret.value = 0 ELSE last = {ret.value}
    /\ \A a \in MemWords :
          IF lastDirectWrite[a] = {} THEN MemRead(memory, a) = 0
          ELSE lastDirectWrite[a] = {MemRead(memory, a)}

\* read(6) returns the value last written to the word at 4, the second word
\* of a two-word block written at 0
C15_Witness ==
    /\ ret.op = "memory_read" /\ ret.address = 6 /\ ret.value = 2
    /\ lastDirectWrite[4] = {2}
    /\ lastDirectWrite[0] = {1}
    /\ lastDirectWrite[8] = {}

\* the step is a grading call on an operation
IsGrading ==
    /\ sessionRet'.op \in {"validate_hit_miss", "validate_address_decomposition"}
    /\ 0 <= current_operation_index /\ current_operation_index < Len(operations)

\* the attempt count recorded for a question, 0 if none
AttemptsOf(attempts, i) == IF i \in DOMAIN attempts THEN attempts[i] ELSE 0

(* C16: in every reachable state of the ExerciseManager (any sequence of
   load_exercise, next_operation, previous_operation, go_to_operation, grading,
   execute and reset_to_beginning calls), if the operation sequence is
   non-empty then 0 <= current_operation_index < len(operations). *)
C16_CursorInRange ==
    Len(operations) > 0 =>
        (0 <= current_operation_index /\ current_operation_index < Len(operations))

\* next_operation called on the last of two operations has left the cursor
\* there
C16_Witness ==
    /\ Len(operations) = 2
    /\ sessionRet.op = "next_operation" /\ sessionRet.index = 1
    /\ current_operation_index = 1

(* C17: in every reachable state of the ExerciseManager, the attempt count
   recorded for every operation index is in [0, max_attempts] (max_attempts =
   2), whatever sequence of validate_hit_miss and
   validate_address_decomposition calls was made. *)
C17_AttemptsBounded ==
    \A i \in DOMAIN attempts_per_question :
        0 <= attempts_per_question[i] /\ attempts_per_question[i] <= 2

\* a third wrong hit/miss answer on the same question has been counted
C17_Witness ==
    /\ sessionRet.op = "validate_hit_miss" /\ ~sessionRet.is_correct
    /\ sessionRet.index = current_operation_index
    /\ AttemptsOf(attempts_per_question, current_operation_index) = 3

(* C18: once the attempt count of a question has reached max_attempts,
   scoring of that question is frozen: further validate_hit_miss or
   validate_address_decomposition calls on that question (correct or wrong)
   leave its attempt count unchanged, until load_exercise or
   reset_to_beginning is called. *)
C18_ScoringFrozen ==
    [][(IsGrading /\ AttemptsOf(attempts_per_question, current_operation_index) >= 2) =>
          AttemptsOf(attempts_per_question', current_operation_index)
             = AttemptsOf(attempts_per_question, current_operation_index)
      ]_vars

\* a correct decomposition answer on a question that had reached two attempts
\* has set its count back to 0
C18_Witness ==
    /\ sessionRet.op = "validate_address_decomposition" /\ sessionRet.is_correct
    /\ sessionRet.index = 1 /\ current_operation_index = 1
    /\ attempts_per_question = (0 :> 2) @@ (1 :> 0)

(* C19: the session executes each operation's ground truth exactly once and
   caches it: calling execute_current_operation again while the cursor stays
   on the same operation returns the same hit/miss result as the first call
   and does not change cache lines, recency or the hits/misses counters a
   second time. *)
C19_ExecutedOnce ==
    [][(/\ sessionRet.op = "execute_current_operation"
        /\ sessionRet'.op = "execute_current_operation"
        /\ sessionRet.index = current_operation_index
        /\ 0 <= current_operation_index /\ current_operation_index < Len(operations)) =>
          /\ sessionRet'.hit = sessionRet.hit
          /\ cache' = cache
          /\ hits' = hits
          /\ misses' = misses
      ]_vars

\* the read of 6 executed twice in a row on a reset cache: the second call
\* returned a hit and the counters show two accesses
C19_Witness ==
    /\ Len(operations) = 1 /\ operations[1].address = 6
    /\ sessionRet.op = "execute_current_operation" /\ sessionRet.hit
    /\ hits = 1 /\ misses = 1
    /\ readAddrs = {6}

(* C20: validate_hit_miss with a guess equal to the true hit/miss reports
   correct, signals auto-advance, and sets the current question's attempt
   count to 0, whatever the count was before; attempt counts of other
   questions and the cursor are unchanged. *)
C20_CorrectGuess ==
    [][(/\ sessionRet'.op = "validate_hit_miss"
        /\ 0 <= current_operation_index /\ current_operation_index < Len(operations)
        /\ sessionRet'.student_answer = sessionRet'.hit) =>
          /\ sessionRet'.is_correct
          /\ sessionRet'.should_auto_advance
          /\ current_operation_index \in DOMAIN attempts_per_question'
          /\ attempts_per_question'[current_operation_index] = 0
          /\ \A i \in (DOMAIN attempts_per_question \cup DOMAIN attempts_per_question')
                      \ {current_operation_index} :
                AttemptsOf(attempts_per_question', i) = AttemptsOf(attempts_per_question, i)
          /\ current_operation_index' = current_operation_index
      ]_vars

\* a correct guess on the second question, graded by performing the
\* operation, while the first question keeps its two attempts
C20_Witness ==
    /\ sessionRet.op = "validate_hit_miss" /\ sessionRet.is_correct
    /\ sessionRet.student_answer = sessionRet.hit
    /\ current_operation_index = 1
    /\ attempts_per_question = (0 :> 2) @@ (1 :> 0)
    /\ ret.op = "write" /\ ret.address = 8

\* the step is a validate_hit_miss call on an operation, answered wrongly
IsWrongHitMiss ==
    /\ sessionRet'.op = "validate_hit_miss"
    /\ 0 <= current_operation_index /\ current_operation_index < Len(operations)
    /\ sessionRet'.student_answer # sessionRet'.hit

(* C21: starting from an attempt count of 0 on an operation, the first wrong
   hit/miss guess reports incorrect with 'try again' and no advance, and the
   second consecutive wrong hit/miss guess on the same operation reports
   incorrect, reveals the correct answer (Hit or Miss matching the true
   result) and signals auto-advance. *)
C21_SecondWrongReveals ==
    [][/\ (IsWrongHitMiss /\ AttemptsOf(attempts_per_question, current_operation_index) = 0) =>
             /\ ~sessionRet'.is_correct
             /\ ~sessionRet'.should_auto_advance
             /\ sessionRet'.feedback.text = "Incorrect, try again."
             /\ AttemptsOf(attempts_per_question', current_operation_index) = 1
       /\ (IsWrongHitMiss /\ AttemptsOf(attempts_per_question, current_operation_index) = 1) =>
             /\ ~sessionRet'.is_correct
             /\ sessionRet'.should_auto_advance
             /\ sessionRet'.feedback.text =
                   (IF sessionRet'.hit THEN "Incorrect. The correct answer is Hit."
                    ELSE "Incorrect. The correct answer is Miss.")
             /\ AttemptsOf(attempts_per_question', current_operation_index) = 2
      ]_vars

\* the second of two wrong guesses on the read of 6, each graded by performing
\* the read: the guess "miss" was wrong because the first call had loaded the
\* block, and the answer revealed is Hit
C21_Witness ==
    /\ Len(operations) = 1 /\ operations[1].address = 6
    /\ sessionRet.op = "validate_hit_miss" /\ ~sessionRet.is_correct
    /\ sessionRet.should_auto_advance
    /\ sessionRet.hit /\ ~sessionRet.student_answer
    /\ sessionRet.feedback.text = "Incorrect. The correct answer is Hit."
    /\ attempts_per_question = (0 :> 2)
    /\ hits = 1 /\ misses = 1 /\ accesses = 2

\* the fields of the current operation's address in the order the cache's
\* decomposition returns them: tag, set_index, block_offset, byte_offset
DecompositionOf(address) ==
    LET c == CalculateAddressComponents(address)
    IN  <<c.tag, c.block_index, c.block_offset, c.byte_offset>>

\* the positions at which two tuples of four fields differ
DifferingFields(d, e) == {i \in 1 .. 4 : d[i] # e[i]}

(* C22: for every operation address, passing the four fields returned by the
   cache's decomposition positionally in the documented order (tag, set_index,
   block_offset, byte_offset) to validate_address_decomposition is graded
   correct, and changing any single field to a different value is graded
   incorrect. *)
C22_PositionalOrder ==
    [][(/\ sessionRet'.op = "validate_address_decomposition"
        /\ 0 <= current_operation_index /\ current_operation_index < Len(operations)) =>
          LET passed == sessionRet'.decomposition
              fields == DecompositionOf(operations[current_operation_index + 1].address)
          IN  /\ passed = fields => sessionRet'.is_correct
              /\ Cardinality(DifferingFields(passed, fields)) = 1 =>
                    ~sessionRet'.is_correct
      ]_vars

\* the decomposition of 6, (0, 1, 0, 2), passed in that order, has been graded
\* incorrect and counted as an attempt
C22_Witness ==
    /\ Len(operations) = 1 /\ operations[1].address = 6
    /\ DecompositionOf(6) = <<0, 1, 0, 2>>
    /\ sessionRet.op = "validate_address_decomposition"
    /\ sessionRet.decomposition = <<0, 1, 0, 2>>
    /\ ~sessionRet.is_correct
    /\ sessionRet.feedback.fields = {<<"Block Offset", 0>>, <<"Byte Offset", 2>>}
    /\ attempts_per_question = (0 :> 1)

(* C23: on an empty operation sequence, validate_hit_miss,
   validate_address_decomposition and execute_current_operation return a
   benign 'no current operation' result without raising, and leave the cache
   (lines, hits, misses), the memory, the cursor and the attempt map
   unchanged. *)
C23_EmptySequence ==
    [][(/\ Len(operations) = 0
        /\ sessionRet'.op \in {"validate_hit_miss", "validate_address_decomposition",
                               "execute_current_operation"}) =>
          /\ ~sessionRet'.is_correct
          /\ ~sessionRet'.should_auto_advance
          /\ sessionRet'.op # "execute_current_operation" =>
                sessionRet'.feedback = [text |-> "No current operation", fields |-> {}]
          /\ sessionRet'.op = "execute_current_operation" =>
                (~sessionRet'.hit /\ sessionRet'.value = 0)
          /\ cache' = cache /\ hits' = hits /\ misses' = misses
          /\ memory' = memory /\ modified_addresses' = modified_addresses
          /\ current_operation_index' = current_operation_index
          /\ attempts_per_question' = attempts_per_question
          /\ operations' = operations
      ]_vars

\* validate_hit_miss, asked to compute the result itself, has answered 'no
\* current operation' on an empty sequence loaded over a cache that holds a
\* block
C23_Witness ==
    /\ operations = <<>>
    /\ sessionRet.op = "validate_hit_miss"
    /\ sessionRet.feedback.text = "No current operation"
    /\ hits + misses = 1
    /\ \E s \in Sets : \E w \in Ways : cache[s][w].valid
    /\ attempts_per_question = [i \in {} |-> 0]

(* C24: next_operation and previous_operation move the cursor by exactly one
   when not at the last/first operation and are no-ops at the ends (no wrap,
   no error); go_to_operation(i) sets the cursor to i when 0 <= i < length and
   is ignored otherwise; none of the three changes the attempt map, the
   operation sequence, the cache or the memory. *)
C24_Navigation ==
    [][/\ sessionRet'.op = "next_operation" =>
             current_operation_index' =
                IF current_operation_index + 1 < Len(operations)
                THEN current_operation_index + 1 ELSE current_operation_index
       /\ sessionRet'.op = "previous_operation" =>
             current_operation_index' =
                IF current_operation_index >= 1
                THEN current_operation_index - 1 ELSE current_operation_index
       /\ sessionRet'.op = "go_to_operation" =>
             current_operation_index' =
                IF 0 <= sessionRet'.target /\ sessionRet'.target < Len(operations)
                THEN sessionRet'.target ELSE current_operation_index
       /\ sessionRet'.op \in {"next_operation", "previous_operation", "go_to_operation"} =>
             /\ attempts_per_question' = attempts_per_question
             /\ operations' = operations
             /\ cache' = cache /\ hits' = hits /\ misses' = misses
             /\ memory' = memory /\ modified_addresses' = modified_addresses
      ]_vars

\* previous_operation called on the first of two operations has left the
\* cursor at 0, with an attempt recorded and a block in the cache
C24_Witness ==
    /\ Len(operations) = 2
    /\ sessionRet.op = "previous_operation" /\ sessionRet.index = 0
    /\ current_operation_index = 0
    /\ attempts_per_question = (0 :> 1)
    /\ misses = 1

\* the cache and the memory are in the state they are constructed in: every
\* line invalid, clean and zeroed, no hit or miss counted, every word of the
\* memory 0 and none recorded as modified
ZeroState(c, h, m, mem, modified) ==
    /\ \A s \in Sets : \A w \in Ways :
          /\ ~c[s][w].valid
          /\ ~c[s][w].dirty
          /\ c[s][w].tag = 0
          /\ \A i \in Words : c[s][w].data[i] = 0
          /\ c[s][w].use_bit = 0
    /\ h = 0
    /\ m = 0
    /\ \A a \in DOMAIN mem : mem[a] = 0
    /\ modified = {}

(* C25: load_exercise(operations, reset_cache) replaces the sequence, sets the
   cursor to 0 and clears every attempt count; with reset_cache true the cache
   and memory are in their zero state afterwards, and with reset_cache false
   the cache lines, counters and memory contents are left exactly as they
   were. *)
C25_LoadExercise ==
    [][sessionRet'.op = "load_exercise" =>
          /\ operations' = sessionRet'.loaded
          /\ current_operation_index' = 0
          /\ DOMAIN attempts_per_question' = {}
          /\ IF sessionRet'.reset_cache
             THEN ZeroState(cache', hits', misses', memory', modified_addresses')
             ELSE /\ cache' = cache /\ hits' = hits /\ misses' = misses
                  /\ memory' = memory /\ modified_addresses' = modified_addresses
      ]_vars

\* a one-operation exercise loaded without a reset from the second operation
\* of another, over a cache that holds a dirty block and has counted a hit
\* and a miss
C25_Witness ==
    /\ sessionRet.op = "load_exercise" /\ ~sessionRet.reset_cache
    /\ sessionRet.index = 1 /\ current_operation_index = 0
    /\ Len(operations) = 1
    /\ DOMAIN attempts_per_question = {}
    /\ hits = 1 /\ misses = 1
    /\ \E s \in Sets : \E w \in Ways : cache[s][w].valid /\ cache[s][w].dirty

(* C26: after reset_to_beginning, from any reachable session state, the cursor
   is 0, the attempt map is empty, every cache line is invalid with hits =
   misses = 0, and every memory word reads 0 with an empty modified-address
   record; the operation sequence itself is unchanged. *)
C26_ResetToBeginning ==
    [][sessionRet'.op = "reset_to_beginning" =>
          /\ current_operation_index' = 0
          /\ attempts_per_question' = [i \in {} |-> 0]
          /\ \A s \in Sets : \A w \in Ways : ~cache'[s][w].valid
          /\ hits' = 0 /\ misses' = 0
          /\ \A a \in MemWords : MemRead(memory', a) = 0
          /\ modified_addresses' = {}
          /\ operations' = operations
      ]_vars

\* reset_to_beginning called on the second of two operations of a
\* write-through session: the cursor is back at 0 and the word at 8 reads 0
C26_Witness ==
    /\ sessionRet.op = "reset_to_beginning" /\ sessionRet.index = 1
    /\ Len(operations) = 2
    /\ current_operation_index = 0
    /\ ret.op = "reset_all"
    /\ MemRead(memory, 8) = 0
    /\ modified_addresses = {}
    /\ write_policy = "write-through"

(* C27: requesting a predefined exercise by a name that is not in the registry
   fails with an UnknownExercise error surfaced to the caller and changes
   nothing: memory contents, modified-address record, cache and session state
   are all as before the call. *)
C27_UnknownExercise ==
    [][/\ (/\ ret'.op = "load_exercise"
           /\ ret'.name \notin get_exercise_names
           /\ sessionRet' = sessionRet) =>
             /\ ~ret'.ok
             /\ ret'.error = "Unknown exercise"
             /\ ret'.operations = <<>>
             /\ memory' = memory /\ modified_addresses' = modified_addresses
             /\ cache' = cache /\ hits' = hits /\ misses' = misses
             /\ operations' = operations
             /\ current_operation_index' = current_operation_index
             /\ attempts_per_question' = attempts_per_question
       /\ (/\ sessionRet'.op = "on_load_exercise"
           /\ sessionRet'.name \notin get_exercise_names
           /\ ret' = ret) =>
             /\ sessionRet'.feedback =
                   [text |-> "Failed to load exercise", fields |-> {"Unknown exercise"}]
             /\ memory' = memory /\ modified_addresses' = modified_addresses
             /\ cache' = cache /\ hits' = hits /\ misses' = misses
             /\ operations' = operations
             /\ current_operation_index' = current_operation_index
             /\ attempts_per_question' = attempts_per_question
      ]_vars

\* the loader has refused a name that is not in the registry, in the middle
\* of the 'Write Operations' exercise: the memory keeps its words, the cache
\* its dirty block and the session its cursor
C27_Witness ==
    /\ ret.op = "load_exercise" /\ ret.name = "Set-Associative Writes" /\ ~ret.ok
    /\ operations = get_write_exercise.operations
    /\ current_operation_index = 1
    /\ sessionRet.op = "execute_current_operation" /\ sessionRet.index = 1
    /\ \E s \in Sets : \E w \in Ways : cache[s][w].valid /\ cache[s][w].dirty
    /\ hits = 1 /\ misses = 1

(* C28: after a predefined exercise is loaded the way the application loads
   it (the loader pre-populates memory, then
   ExerciseManager.load_exercise(operations, reset_cache=True) is called), the
   memory still holds the exercise's pre-populated values when the first
   operation executes: for 'Simple Direct-Mapped', the first read of 0x1000 is
   a miss returning 100 and the read of 0x1004 returns 200. *)
C28_PrepopulationSurvivesLoad ==
    [][/\ (/\ sessionRet'.op = "on_load_exercise"
           /\ sessionRet'.name \in get_exercise_names
           /\ ret'.op = "reset_all") =>
             \A a \in DOMAIN EXERCISE_REGISTRY[sessionRet'.name].pairs :
                MemRead(memory', a) = EXERCISE_REGISTRY[sessionRet'.name].pairs[a]
       /\ (/\ sessionRet.op = "on_load_exercise"
           /\ sessionRet.name = "Simple Direct-Mapped"
           /\ ret.op = "reset_all"
           /\ sessionRet'.op = "execute_current_operation") =>
             /\ ret'.address = 4096
             /\ ~sessionRet'.hit
             /\ sessionRet'.value = 100
       /\ (/\ operations = get_simple_direct_mapped_exercise.operations
           /\ accesses = 1 /\ ret.op = "read" /\ ret.address = 4096
           /\ sessionRet.op = "next_operation" /\ current_operation_index = 1
           /\ sessionRet'.op = "execute_current_operation") =>
             /\ ret'.address = 4100
             /\ sessionRet'.value = 200
      ]_vars

\* 'Simple Direct-Mapped' loaded by the application on a cache of 4-word
\* blocks: its first read, of 0x1000, has missed and returned 0, and the
\* memory holds no written word
C28_Witness ==
    /\ operations = get_simple_direct_mapped_exercise.operations
    /\ block_size_words = 4
    /\ sessionRet.op = "execute_current_operation" /\ sessionRet.index = 0
    /\ accesses = 1
    /\ ret.op = "read" /\ ret.address = 4096 /\ ~ret.hit /\ ret.data = 0
    /\ sessionRet.value = 0
    /\ modified_addresses = {}
    /\ MemRead(memory, 4096) = 0

\* the content of the word at the aligned address a as a flat memory would
\* hold it: the word of the resident line if a's block is in the cache, the
\* word of the memory otherwise
FlatValue(c, mem, a) ==
    LET resident == Resident(c, a)
    IN  IF resident # {}
        THEN c[FieldSetIndex(a)][CHOOSE w \in resident : TRUE].data[FieldBlockOffset(a)]
        ELSE IF a \in DOMAIN mem THEN mem[a] ELSE 0

(* C29: for any sequence of cache reads and writes of in-range addresses
   (either write policy, direct-mapped or N-way, any power-of-two
   configuration, no direct memory writes in between), every cache read of
   address A returns the value most recently written to A's word through the
   cache, or the value the memory held for that word if it was never written:
   the cache in front of the memory is observationally equivalent to a flat
   memory.  Stated as a refinement: a read returns the flat content of its
   word and changes no word's flat content; a write sets the flat content of
   its word to the value written and changes no other word's. *)
C29_FlatMemory ==
    [][(IsAccess /\ ret'.ok) =>
          LET word == ret'.address - (ret'.address % bytes_per_word)
          IN  /\ ret'.op = "read" =>
                    /\ ret'.data = FlatValue(cache, memory, word)
                    /\ \A a \in MemWords :
                          FlatValue(cache', memory', a) = FlatValue(cache, memory, a)
              /\ ret'.op = "write" =>
                    /\ FlatValue(cache', memory', word) = ret'.value
                    /\ \A a \in MemWords \ {word} :
                          FlatValue(cache', memory', a) = FlatValue(cache, memory, a)
      ]_vars

\* under write-back, a value written to the pre-populated word 0x1000, evicted
\* by a read of the colliding block 0x2000, has been read back from 0x1000
C29_Witness ==
    /\ write_policy = "write-back"
    /\ ret.op = "read" /\ ret.address = 4096 /\ ~ret.hit
    /\ lastCacheWrite[4096] = {ret.data}
    /\ lastDirectWrite[4096] = {100}
    /\ lastDirectWrite[4100] = {200}
    /\ accAddrs = {4096, 8192}
    /\ accesses = 3
    /\ memory[4096] = ret.data

\* C29, the instance it names: in a session on the 'Write Operations'
\* exercise, the read of 0x3004 made after the exercise's write of 2500, with
\* no direct write to that word since, returns 2500
WriteExerciseReadsBack ==
    (/\ operations = get_write_exercise.operations
     /\ sessionRet.op = "execute_current_operation" /\ sessionRet.index = 3
     /\ ret.op = "read" /\ ret.address = 12292
     /\ 12292 \in DOMAIN lastCacheWrite /\ lastCacheWrite[12292] = {2500}) =>
        (ret.data = 2500 /\ sessionRet.value = 2500)

\* the four operations of 'Write Operations' executed in order on the
\* direct-mapped write-back cache, where the read of 0x4000 evicts the block
\* written: the last read misses and returns 2500
WriteExerciseWitness ==
    /\ operations = get_write_exercise.operations
    /\ write_policy = "write-back" /\ associativity = 1
    /\ sessionRet.op = "execute_current_operation" /\ sessionRet.index = 3
    /\ accesses = 4 /\ hits = 1 /\ misses = 3
    /\ ret.op = "read" /\ ret.address = 12292 /\ ~ret.hit /\ ret.data = 2500

(* C30: in an N-way cache, a miss that fills the cache never replaces a valid
   line while the target set still contains an invalid line: the victim is an
   invalid line whenever one exists, and all valid lines of the set keep
   their tag, data, dirty bit and origin address.  Stated for every filling
   miss (a read miss, or a write miss under write-back) on a set with an
   invalid line: exactly one line of the set changes, it was invalid and now
   holds the tag of the address. *)
C30_InvalidLineFirst ==
    [][(IsAccess /\ associativity >= 2 /\ ret'.ok /\ ~ret'.hit
          /\ (ret'.op = "read" \/ write_policy = "write-back")
          /\ \E w \in Ways : ~cache[FieldSetIndex(ret'.address)][w].valid) =>
         LET s == FieldSetIndex(ret'.address)
         IN  /\ \A w \in Ways :
                   cache[s][w].valid =>
                      /\ cache'[s][w].valid
                      /\ cache'[s][w].tag = cache[s][w].tag
                      /\ cache'[s][w].data = cache[s][w].data
                      /\ cache'[s][w].dirty = cache[s][w].dirty
                      /\ cache'[s][w].block_start_address = cache[s][w].block_start_address
             /\ \E w \in Ways :
                   /\ ~cache[s][w].valid
                   /\ cache'[s][w].valid
                   /\ cache'[s][w].tag = FieldTag(ret'.address)
                   /\ \A v \in Ways \ {w} : ~cache[s][v].valid => ~cache'[s][v].valid
      ]_vars

\* a 4-way write-back set after a write miss and two read misses: the dirty
\* line and the first clean line are kept, the third block went to the third
\* line, and the fourth line is still invalid
C30_Witness ==
    /\ associativity = 4 /\ write_policy = "write-back"
    /\ accesses = 3 /\ misses = 3
    /\ ret.op = "read" /\ ~ret.hit /\ ret.address = 8192
    /\ cache[0][0].valid /\ cache[0][0].dirty /\ cache[0][0].tag = FieldTag(0)
    /\ cache[0][0].data[0] = 1
    /\ cache[0][1].valid /\ cache[0][1].tag = FieldTag(4096)
    /\ cache[0][2].valid /\ cache[0][2].tag = FieldTag(8192)
    /\ ~cache[0][3].valid

(* C31: in an N-way cache (N>=2), after any access (hit or fill) to a line,
   that line's recency equals 1 + the maximum recency over the valid lines of
   its set, so in every reachable state the valid lines of a set have pairwise
   distinct recency values and a line's recency never decreases between
   resets.  Stated for every step: the line holding the block of the address
   after a successful access carries 1 + the largest use_bit of the lines
   that were valid in its set before the access (1 if none was); after the
   step no two valid lines of a set share a use_bit; and no use_bit is
   lowered by a step that is not a reset. *)
C31_RecencyStamp ==
    [][associativity >= 2 =>
         /\ (IsAccess /\ ret'.ok) =>
               LET s == FieldSetIndex(ret'.address)
                   before == {cache[s][v].use_bit : v \in {u \in Ways : cache[s][u].valid}}
               IN  \A w \in Resident(cache', ret'.address) :
                      cache'[s][w].use_bit = 1 + MaxOf(before \cup {0})
         /\ \A s \in Sets : \A w \in Ways : \A v \in Ways \ {w} :
               (cache'[s][w].valid /\ cache'[s][v].valid) =>
                  cache'[s][w].use_bit # cache'[s][v].use_bit
         /\ ret'.op \notin {"reset", "reset_all"} =>
               \A s \in Sets : \A w \in Ways : cache'[s][w].use_bit >= cache[s][w].use_bit
      ]_vars

\* a 3-way set filled by three reads, whose first line was then read again:
\* the recency values are 4, 2 and 3
C31_Witness ==
    /\ associativity = 3
    /\ accesses = 4 /\ hits = 1 /\ misses = 3
    /\ ret.op = "read" /\ ret.hit /\ ret.address = 0
    /\ cache[0][0].use_bit = 4
    /\ cache[0][1].use_bit = 2
    /\ cache[0][2].use_bit = 3

(* C32: under write-through, a write miss does not fill the cache: every line
   of every set (valid, tag, data, dirty, recency) is unchanged by the write;
   only the misses counter and the memory word change, and an immediately
   following read of the same address is a miss. *)
C32_NoWriteAllocate ==
    [][/\ (IsAccess /\ write_policy = "write-through"
             /\ ret'.op = "write" /\ ret'.ok /\ ~ret'.hit) =>
            /\ cache' = cache
            /\ hits' = hits
            /\ misses' = misses + 1
            /\ memory'[MemAlign(ret'.address)] = ret'.value
            /\ \A a \in DOMAIN memory' \ {MemAlign(ret'.address)} :
                  a \in DOMAIN memory /\ memory'[a] = memory[a]
            /\ ~CacheRead(cache', memory', modified_addresses', hits', misses',
                          ret'.address).hit
       /\ (IsAccess /\ write_policy = "write-through"
             /\ ret.op = "write" /\ ret.ok /\ ~ret.hit
             /\ ret'.op = "read" /\ ret'.address = ret.address) =>
            ~ret'.hit
      ]_vars

\* a write-through cache holding the block of 0 after one read miss, a write
\* miss on 4096 that left the line alone, and the read of 4096 that missed
C32_Witness ==
    /\ write_policy = "write-through" /\ associativity = 2
    /\ accesses = 3 /\ misses = 3 /\ hits = 0
    /\ ret.op = "read" /\ ret.address = 4096 /\ ~ret.hit /\ ret.data \in Values
    /\ accAddrs = {0, 4096} /\ readAddrs = {0, 4096}
    /\ Cardinality({w \in Ways : cache[0][w].valid}) = 2

(* C33: under write-back, a write miss performs write-allocate: afterwards the
   address's set holds a valid, dirty line with the address's tag, origin
   address equal to the block-aligned address, and data equal to the memory
   block with the written value at block_offset; the memory word of the
   written address itself is not changed by this write, and an immediately
   following read of the address is a hit returning the written value. *)
C33_WriteAllocate ==
    [][/\ (IsAccess /\ write_policy = "write-back"
             /\ ret'.op = "write" /\ ret'.ok /\ ~ret'.hit) =>
            LET A == ret'.address
                s == FieldSetIndex(A)
                origin == A - (A % (bytes_per_word * block_size_words))
                block == [i \in Words |-> MemRead(memory, origin + i * bytes_per_word)]
                after == CacheRead(cache', memory', modified_addresses', hits', misses', A)
            IN  /\ \E w \in Ways :
                      /\ Resident(cache', A) = {w}
                      /\ cache'[s][w].dirty
                      /\ cache'[s][w].block_start_address = origin
                      /\ cache'[s][w].data =
                            [block EXCEPT ![FieldBlockOffset(A)] = ret'.value]
                /\ MemRead(memory', A) = MemRead(memory, A)
                /\ after.ok /\ after.hit /\ after.value = ret'.value
       /\ (IsAccess /\ write_policy = "write-back"
             /\ ret.op = "write" /\ ret.ok /\ ~ret.hit
             /\ ret'.op = "read" /\ ret'.address = ret.address) =>
            (ret'.ok /\ ret'.hit /\ ret'.data = ret.value)
      ]_vars

\* a 2-word write-back line allocated by a write miss on 4096 over the
\* pre-populated block (100, 200), then read back: the memory still holds 100
C33_Witness ==
    /\ write_policy = "write-back" /\ block_size_words = 2
    /\ accesses = 2 /\ misses = 1 /\ hits = 1
    /\ ret.op = "read" /\ ret.address = 4096 /\ ret.hit /\ ret.data = 2
    /\ MemRead(memory, 4096) = 100
    /\ \E w \in Resident(cache, 4096) :
          /\ cache[FieldSetIndex(4096)][w].dirty
          /\ cache[FieldSetIndex(4096)][w].data = (0 :> 2) @@ (1 :> 200)

\* the valid dirty lines of the set of address A that the miss on A replaced
DirtyVictims(A) ==
    {w \in Ways : /\ cache[FieldSetIndex(A)][w].valid
                  /\ cache[FieldSetIndex(A)][w].dirty
                  /\ cache[FieldSetIndex(A)][w].tag # FieldTag(A)
                  /\ cache'[FieldSetIndex(A)][w].tag = FieldTag(A)}

\* the block of n words of memory mem that starts at the address start
BlockAt(mem, start) == [i \in Words |-> MemRead(mem, start + i * bytes_per_word)]

(* C34, as stated: on a miss under write-back whose victim is valid and dirty,
   the victim's full block is written back to memory at its origin address,
   then the new block is fetched from memory, then the victim line is
   overwritten. *)
C34_FlushFetchInstall ==
    [][(IsAccess /\ write_policy = "write-back" /\ ret'.ok /\ ~ret'.hit) =>
         \A w \in DirtyVictims(ret'.address) :
            LET origin == ret'.address - (ret'.address % (bytes_per_word * block_size_words))
                old == cache[FieldSetIndex(ret'.address)][w]
            IN  ret'.calls = <<[call |-> "write_block", address |-> old.block_start_address],
                               [call |-> "read_block", address |-> origin],
                               [call |-> "install", address |-> origin]>>
      ]_vars

(* C34, amended: on a miss under write-back whose victim is valid and dirty,
   the new block is fetched from memory first, then the victim's full block
   is written back to memory at its origin address, then the victim line is
   overwritten.  The flush always precedes the install, and the fetch reads a
   block other than the one flushed: the memory holds the victim's data at
   its origin address afterwards, and the block fetched is the one the memory
   holds both before and after the flush. *)
C34_FetchFlushInstall ==
    [][(IsAccess /\ write_policy = "write-back" /\ ret'.ok /\ ~ret'.hit) =>
         \A w \in DirtyVictims(ret'.address) :
            LET s == FieldSetIndex(ret'.address)
                origin == ret'.address - (ret'.address % (bytes_per_word * block_size_words))
                old == cache[s][w]
            IN  /\ ret'.calls = <<[call |-> "read_block", address |-> origin],
                                  [call |-> "write_block", address |-> old.block_start_address],
                                  [call |-> "install", address |-> origin]>>
                /\ old.block_start_address # origin
                /\ BlockAt(memory', old.block_start_address) = old.data
                /\ BlockAt(memory', origin) = BlockAt(memory, origin)
                /\ ret'.op = "read" => cache'[s][w].data = BlockAt(memory, origin)
      ]_vars

\* a 2-word dirty block written through the address 6 and evicted by the read
\* of 4096: the read fetched the block of 4096, flushed the block of 0, then
\* installed
C34_Witness ==
    /\ write_policy = "write-back" /\ block_size_words = 2 /\ associativity = 1
    /\ ret.op = "read" /\ ret.address = 4096 /\ ~ret.hit /\ ret.ok
    /\ ret.calls = <<[call |-> "read_block", address |-> 4096],
                     [call |-> "write_block", address |-> 0],
                     [call |-> "install", address |-> 4096]>>
    /\ MemRead(memory, 4) \in Values
    /\ Resident(cache, 6) = {}

(* C35: for every read and write that hits or fills the cache, the state
   descriptor's set_index, tag and block_offset equal the address's
   decomposition, and its way is the index, within the set, of the line that
   holds the address's block after the access (0 for direct-mapped); this
   includes write misses under write-back in an N-way cache. *)
C35_Descriptor ==
    [][(IsAccess /\ ret'.ok /\ Resident(cache', ret'.address) # {}) =>
         /\ ret'.set_index = FieldSetIndex(ret'.address)
         /\ ret'.tag = FieldTag(ret'.address)
         /\ ret'.block_offset = FieldBlockOffset(ret'.address)
         /\ ret'.way \in Resident(cache', ret'.address)
         /\ associativity = 1 => ret'.way = 0
      ]_vars

\* a 2-way write-back cache after a write miss on 4096 into an empty set: the
\* block is in way 0 and the descriptor says way 1
C35_Witness ==
    /\ associativity = 2 /\ write_policy = "write-back"
    /\ accesses = 1 /\ misses = 1
    /\ ret.op = "write" /\ ret.address = 4096 /\ ~ret.hit /\ ret.ok
    /\ Resident(cache, 4096) = {0}
    /\ ret.way = 1

\* the fields of a decomposition answer that differ from the fields of the
\* address, each answer field taken under the name of the parameter it was
\* passed as: (tag, block_index, byte_offset, block_offset)
WrongFields(passed, A) ==
    (IF passed[1] # FieldTag(A) THEN {"Tag"} ELSE {})
    \cup (IF passed[2] # FieldSetIndex(A) THEN {"Block Index"} ELSE {})
    \cup (IF passed[3] # FieldByteOffset(A) THEN {"Byte Offset"} ELSE {})
    \cup (IF passed[4] # FieldBlockOffset(A) THEN {"Block Offset"} ELSE {})

\* the correct value of a field named in a 'try again' feedback
CorrectField(name, A) ==
    CASE name = "Tag" -> FieldTag(A)
      [] name = "Block Index" -> FieldSetIndex(A)
      [] name = "Byte Offset" -> FieldByteOffset(A)
      [] name = "Block Offset" -> FieldBlockOffset(A)

\* the step is a validate_address_decomposition call on an operation
IsDecompositionGrading ==
    /\ sessionRet'.op = "validate_address_decomposition"
    /\ 0 <= current_operation_index /\ current_operation_index < Len(operations)

(* C36: validate_address_decomposition handles mismatches exactly like
   validate_hit_miss when called on its own: from an attempt count of 0, the
   first wrong decomposition reports incorrect without advance and names each
   wrong field with its correct value, and the second consecutive wrong
   decomposition on the same operation reports incorrect, reveals all four
   correct fields and signals auto-advance; a fully correct decomposition
   resets the count to 0 and signals advance. *)
C36_DecompositionAttempts ==
    [][IsDecompositionGrading =>
         LET A == operations[current_operation_index + 1].address
             wrong == WrongFields(sessionRet'.decomposition, A)
             before == AttemptsOf(attempts_per_question, current_operation_index)
             after == AttemptsOf(attempts_per_question', current_operation_index)
         IN  /\ (wrong # {} /\ before = 0) =>
                   /\ ~sessionRet'.is_correct /\ ~sessionRet'.should_auto_advance
                   /\ sessionRet'.feedback.fields = {<<n, CorrectField(n, A)>> : n \in wrong}
                   /\ after = 1
             /\ (wrong # {} /\ before = 1) =>
                   /\ ~sessionRet'.is_correct /\ sessionRet'.should_auto_advance
                   /\ sessionRet'.feedback.fields =
                         {<<"Tag", FieldTag(A)>>, <<"BlockIdx", FieldSetIndex(A)>>,
                          <<"BlockOff", FieldBlockOffset(A)>>,
                          <<"ByteOff", FieldByteOffset(A)>>}
                   /\ after = 2
             /\ wrong = {} =>
                   /\ sessionRet'.is_correct /\ sessionRet'.should_auto_advance
                   /\ after = 0
      ]_vars

\* the second of two wrong decompositions of the read of 6, with no hit/miss
\* answer graded and nothing executed: all four fields are revealed
C36_Witness ==
    /\ Len(operations) = 1 /\ operations[1].address = 6
    /\ accesses = 0
    /\ sessionRet.op = "validate_address_decomposition"
    /\ sessionRet.decomposition = <<1, 1, 2, 0>>
    /\ ~sessionRet.is_correct /\ sessionRet.should_auto_advance
    /\ sessionRet.feedback.fields =
          {<<"Tag", 0>>, <<"BlockIdx", 1>>, <<"BlockOff", 0>>, <<"ByteOff", 2>>}
    /\ attempts_per_question = (0 :> 2)

(* C37: under write-through, in every reachable state (any sequence of cache
   reads, writes and resets with in-range addresses and no direct memory
   writes), no cache line is dirty and the data of every valid line equals the
   current Memory Model contents of the block_size_words words starting at
   the line's origin address. *)
C37_WriteThroughCoherent ==
    write_policy = "write-through" =>
        \A s \in Sets : \A w \in Ways :
            /\ ~cache[s][w].dirty
            /\ cache[s][w].valid =>
                  cache[s][w].data = BlockAt(memory, cache[s][w].block_start_address)

\* a write-through line of two words loaded from the pre-populated block
\* (100, 200) and then written by a write hit on 4096: the line and the memory
\* both hold the written value and 200
C37_Witness ==
    /\ write_policy = "write-through" /\ block_size_words = 2
    /\ ret.op = "write" /\ ret.address = 4096 /\ ret.hit /\ ret.value = 2
    /\ hits = 1 /\ misses = 1
    /\ \E w \in Resident(cache, 4096) :
          cache[FieldSetIndex(4096)][w].data = (0 :> 2) @@ (1 :> 200)
    /\ MemRead(memory, 4096) = 2 /\ MemRead(memory, 4100) = 200

(* C38: a cache read or write whose address lies outside 0..65535 never
   reports a hit and never returns data: it fails with the out-of-range
   error, and the cache lines, the hits/misses counters and the memory are all
   exactly as before the call. *)
C38_OutOfRangeAccess ==
    [][(IsAccess /\ OutOfRange(ret'.address)) =>
         /\ ~ret'.ok
         /\ ~ret'.hit
         /\ cache' = cache
         /\ hits' = hits /\ misses' = misses
         /\ memory' = memory /\ modified_addresses' = modified_addresses
      ]_vars

\* a write-back cache whose line of address 0 was written 7, then read at
\* 65536: the read hit and returned 7
C38_Witness ==
    /\ write_policy = "write-back" /\ associativity = 1
    /\ accesses = 2 /\ hits = 1 /\ misses = 1
    /\ ret.op = "read" /\ ret.address = 65536
    /\ ret.ok /\ ret.hit /\ ret.data = 7

\* the step is a check of the application made on an operation
IsCheck == sessionRet'.op = "on_check_answer" /\ sessionRet'.checks > 0 /\ IsAccess

(* C39: in the application's check flow (each check calls
   execute_current_operation, then validate_hit_miss with that result, then
   validate_address_decomposition, on the same operation and sharing one
   attempt counter), a student whose hit/miss guess is wrong on every check of
   the same operation receives the auto-advance signal with the revealed
   answer from validate_hit_miss no later than the second check, whatever
   decomposition answers are submitted alongside. *)
C39_RevealBySecondCheck ==
    [][(IsCheck /\ sessionRet'.checks = 2 /\ sessionRet'.wrong_hm = 2) =>
         \E r \in {sessionRet, sessionRet'} :
            /\ r.hm.should_auto_advance
            /\ r.hm.feedback.text = (IF r.hit THEN "Incorrect. The correct answer is Hit."
                                     ELSE "Incorrect. The correct answer is Miss.")
      ]_vars

\* the second check of the last operation of 'Simple Direct-Mapped', both
\* with a wrong hit/miss answer and the right decomposition: validate_hit_miss
\* has said 'try again' again and the attempt count is back to 0
C39_Witness ==
    /\ Len(operations) = 4 /\ current_operation_index = 3
    /\ sessionRet.op = "on_check_answer" /\ sessionRet.index = 3
    /\ sessionRet.checks = 2 /\ sessionRet.wrong_hm = 2 /\ sessionRet.wrong_decomp = 0
    /\ ~sessionRet.hm.is_correct /\ ~sessionRet.hm.should_auto_advance
    /\ sessionRet.hm.feedback.text = "Incorrect, try again."
    /\ sessionRet.decomp.is_correct
    /\ attempts_per_question = (3 :> 0)
    /\ accesses = 2

(* C40: a grading call reports 'incorrect' together with the auto-advance
   signal only when the student has submitted at least max_attempts (2) wrong
   answers of that same kind for the current operation: the first wrong
   decomposition submitted for an operation never signals auto-advance, even
   when a hit/miss guess for the same operation was graded just before it. *)
C40_AdvanceNeedsTwoWrong ==
    [][IsCheck =>
         /\ (~sessionRet'.hm.is_correct /\ sessionRet'.hm.should_auto_advance) =>
               sessionRet'.wrong_hm >= max_attempts
         /\ (~sessionRet'.decomp.is_correct /\ sessionRet'.decomp.should_auto_advance) =>
               sessionRet'.wrong_decomp >= max_attempts
      ]_vars

\* the first check of the first operation, wrong in both answers: the one
\* wrong decomposition was graded on a count of 1, revealed the fields and
\* signalled the advance, and the application moved to the second operation
C40_Witness ==
    /\ sessionRet.op = "on_check_answer" /\ sessionRet.index = 0
    /\ sessionRet.checks = 1 /\ sessionRet.wrong_hm = 1 /\ sessionRet.wrong_decomp = 1
    /\ ~sessionRet.hm.is_correct /\ ~sessionRet.hm.should_auto_advance
    /\ ~sessionRet.decomp.is_correct /\ sessionRet.decomp.should_auto_advance
    /\ sessionRet.decomp.feedback.text = "Incorrect. Correct answer:"
    /\ attempts_per_question = (0 :> 2)
    /\ current_operation_index = 1
    /\ accesses = 1

====
